---- MODULE Spec2Model ----
(***************************************************************************)
(* Model of the Jellyfin -> AniList scrobbler.                             *)
(*                                                                         *)
(* The repository holds several revisions of the scrobbler side by side:   *)
(*   - src/lib/scrobbler.ts with the function handlers of                  *)
(*     src/cmd/webhook/*.ts (deferred write, write retry, autoAdd flag);   *)
(*   - the class of unnamed/part_005 (autoAdd flag, no first-episode       *)
(*     check, immediate writes);                                           *)
(*   - the multi-user class of unnamed/part_004 (per-user token, add when  *)
(*     the show is in no list, play-state detection, unwatched handling).  *)
(* Each is modelled by its own operators and its own handler action; all   *)
(* act on the same remote AniList list.                                    *)
(*                                                                         *)
(* Spec handles one event at a time, each handler as one step. SpecFlight  *)
(* runs two requests of the multi-user class at once, one step per stretch *)
(* of code between two awaits, on one AniList list per profile.            *)
(***************************************************************************)
EXTENDS Integers, Sequences, FiniteSets, TLC

VARIABLES
    lists,      \* AniList: the user's list entry of every show
    episodes,   \* AniList: media.episodes of every show (NoEpisodes = unknown)
    autoAdd,    \* config.anilist.autoAdd
    sharedToken, \* config.anilist.token ("" when the configuration has none)
    req,        \* part_004: the locals of each request in flight and its await position
    scrobblers, \* part_004: the fields api and profileId of each AnilistScrobbler object
    accounts,   \* AniList: the list of each profile
    access,     \* the last AniList call of a request in flight
    jellyfinApi, \* cmd/webhook.ts: the Jellyfin client cached for each server URL
    created,    \* the number of Jellyfin clients created so far
    lookup,     \* the last getProviderFromSeries call: Jellyfin's answer and the result
    served,     \* cmd/webhook.ts: each request Bun.serve is handling and its await position
    met,        \* what the other request did since a request began to wait for its next attempt
    scanned,    \* the last run of the loop of scrobble: the lists it was given and what it decided
    backfill,   \* cmd/webhook/sync.ts: where runBackfill is and what it did for the last series
    judged,     \* the last entry a write returned and the result scrobble made of it
    detect,     \* part_004: where the play-state detection of webhookUserDataSaved is
    profileId,  \* AnilistScrobbler.profileId of the process-wide scrobbler
    pc,         \* where the process is: start, listening, responded, exited
    last        \* what the last handled event did (observation record)

vars == <<lists, episodes, autoAdd, sharedToken, profileId, pc, last,
          req, scrobblers, accounts, access, jellyfinApi, created, lookup, served,
          met, scanned, backfill, judged, detect>>

\* the variables of the requests in flight
flight == <<req, scrobblers, accounts, access>>

\* the variables of the server of cmd/webhook.ts and of the Jellyfin client
aside == <<jellyfinApi, created, lookup, served, met, scanned, backfill,
           judged, detect>>

----------------------------------------------------------------------------
(* Bounds *)

\* largest episode number, progress and episode count
MaxEpisode == 2
\* seasons 0..MaxSeason appear in events
MaxSeason == 2

----------------------------------------------------------------------------
(* Values *)

\* two shows: the events are about show 2; show 1 is another entry of the list
Shows == {1, 2}

\* media.episodes when AniList does not know the count (null / undefined)
NoEpisodes == 0

\* entry.id / profile.id undefined
NoId == 0

\* the profile id AniList reports for the token
TheProfile == 1

\* the number of update attempts (const maxAttempts = 3)
maxAttempts == 3

Statuses == {"CURRENT", "PLANNING", "COMPLETED"}

\* an entry of the user's list; status NONE = the show is on no list
Entries == {[status |-> "NONE", progress |-> 0]} \cup
           [status : Statuses, progress : 0..MaxEpisode]

\* the id AniList gives the list entry of a show (distinct from media ids)
EntryIdOf(show) == show + 10

ShowOfEntry(entryId) == entryId - 10

\* list names of the AniList list collection, by entry status
ListName(status) ==
    CASE status = "CURRENT" -> "Watching"
      [] status = "PLANNING" -> "Planning"
      [] status = "COMPLETED" -> "Completed"

ListOrder == <<"Completed", "Planning", "Watching">>

\* upstream answers to a write: applied, HTTP 500, HTTP 503, HTTP 401, and an
\* error that is no HTTP answer (isAxiosError(error) is false)
Resp == {"ok", "e500", "e503", "e401", "enet"}

----------------------------------------------------------------------------
(* The upstream (AniList) as the program sees it *)

RECURSIVE SeqOfSet(_)
SeqOfSet(S) ==
    IF S = {} THEN <<>>
    ELSE LET m == CHOOSE x \in S : \A y \in S : x <= y
         IN <<m>> \o SeqOfSet(S \ {m})

\* api.lists.anime(profileId): the lists with their entries
EntryView(l, eps, show) ==
    [id |-> EntryIdOf(show),
     media |-> [id |-> show, episodes |-> eps[show]],
     progress |-> l[show].progress]

ListView(l, eps, name) ==
    LET members == {s \in Shows : l[s].status # "NONE" /\ ListName(l[s].status) = name}
        order == SeqOfSet(members)
    IN [name |-> name,
        entries |-> [i \in 1..Len(order) |-> EntryView(l, eps, order[i])]]

Snapshot(l, eps) == [i \in 1..Len(ListOrder) |-> ListView(l, eps, ListOrder[i])]

\* a call to the upstream, as logged in last.calls
Call(op, target, progress, status, resp) ==
    [op |-> op, target |-> target, progress |-> progress, status |-> status, resp |-> resp]

\* the field status is absent from an update
NoStatus == "-"

\* an upstream that keeps the higher progress when an update carries a lower one
ApplyCall_OnlyForward(l, c) ==
    IF c.resp # "ok" THEN l
    ELSE IF c.op = "update" THEN
        LET s == ShowOfEntry(c.target)
        IN IF c.progress < l[s].progress THEN l
           ELSE [l EXCEPT ![s] = [status |-> IF c.status = NoStatus THEN l[s].status
                                             ELSE c.status,
                                  progress |-> c.progress]]
    ELSE IF c.op = "add" THEN
        [l EXCEPT ![c.target] = [status |-> c.status, progress |-> c.progress]]
    ELSE l

\* the effect of one call on the user's list
ApplyCall(l, c) ==
    IF c.resp # "ok" THEN l
    ELSE IF c.op = "update" THEN
        LET s == ShowOfEntry(c.target)
        IN [l EXCEPT ![s] = [status |-> IF c.status = NoStatus THEN l[s].status ELSE c.status,
                             progress |-> c.progress]]
    ELSE IF c.op = "add" THEN
        [l EXCEPT ![c.target] = [status |-> c.status, progress |-> c.progress]]
    ELSE l

RECURSIVE ApplyCalls(_, _)
ApplyCalls(l, cs) ==
    IF cs = <<>> THEN l ELSE ApplyCalls(ApplyCall(l, Head(cs)), Tail(cs))

\* the UpdatedEntry the upstream returns for a successful write
UpdatedEntry(l, c) ==
    LET s == IF c.op = "update" THEN ShowOfEntry(c.target) ELSE c.target
    IN ApplyCall(l, c)[s]

----------------------------------------------------------------------------
(* ScrobbleResult *)

Result(success, level, reason) == [success |-> success, level |-> level, reason |-> reason]

\* no result: the operation has not returned one
NoResult == Result(FALSE, "none", "none")

\* the operation threw
Thrown == Result(FALSE, "none", "thrown")

\* no update prepared (let update: ... | undefined)
NoUpdate == [id |-> NoId, entry |-> [status |-> NoStatus, progress |-> 0]]

\* the response of the upstream to the next call: calls are answered in order
NextResp(o, calls) == o[Len(calls) + 1]

\* the user's list at the upstream once the calls made so far have acted
Remote(l, calls) == ApplyCalls(l, calls)

LastOf(s) == s[Len(s)]

----------------------------------------------------------------------------
(* src/lib/scrobbler.ts *)

\* createUpdatedEntry without the status of the last episode
createUpdatedEntry_NeverCompleted(episode, maxEpisodes) ==
    [status |-> "CURRENT", progress |-> episode]

\* createUpdatedEntry(episode, maxEpisodes)
createUpdatedEntry(episode, maxEpisodes) ==
    [status |-> IF maxEpisodes # NoEpisodes /\ episode = maxEpisodes
                THEN "COMPLETED" ELSE "CURRENT",
     progress |-> episode]

\* the inner loops: the first entry with an id whose media.id is id (0: none)
RECURSIVE FirstMatch(_, _, _)
FirstMatch(entries, i, id) ==
    IF i > Len(entries) THEN 0
    ELSE IF entries[i].id = NoId THEN FirstMatch(entries, i + 1, id)
    ELSE IF entries[i].media.id # id THEN FirstMatch(entries, i + 1, id)
    ELSE i

\* the sanity check with progress > episode in place of progress >= episode
WatchingCheck_Strict(entry, episode) ==
    IF entry.progress > episode THEN Result(FALSE, "warn", "behind")
    ELSE IF entry.media.episodes = NoEpisodes \/ entry.media.episodes < episode
         THEN Result(FALSE, "warn", "exceeds_max")
    ELSE NoResult

\* the sanity check rejecting only an episode count that is known
WatchingCheck_KnownOnly(entry, episode) ==
    IF entry.progress >= episode THEN Result(FALSE, "warn", "behind")
    ELSE IF entry.media.episodes # NoEpisodes /\ entry.media.episodes < episode
         THEN Result(FALSE, "warn", "exceeds_max")
    ELSE NoResult

\* the sanity check reporting the skipped update as a success
WatchingCheck_SkipSucceeds(entry, episode) ==
    IF entry.progress >= episode THEN Result(TRUE, "warn", "behind")
    ELSE IF entry.media.episodes = NoEpisodes \/ entry.media.episodes < episode
         THEN Result(FALSE, "warn", "exceeds_max")
    ELSE NoResult

\* the sanity check of a Watching entry (lines 107-122): a warn result, or NoResult
WatchingCheck(entry, episode) ==
    IF entry.progress >= episode THEN Result(FALSE, "warn", "behind")
    ELSE IF entry.media.episodes = NoEpisodes \/ entry.media.episodes < episode
         THEN Result(FALSE, "warn", "exceeds_max")
    ELSE NoResult

\* the check of a Planning entry accepting every episode
PlanningCheck_Any(entry, episode) == NoResult

\* the check of a Planning entry (lines 137-142)
PlanningCheck(entry, episode) ==
    IF episode # 1 THEN Result(FALSE, "warn", "planning_not_first") ELSE NoResult

\* the loop over the lists (lines 99-152): an early return, or the update prepared
RECURSIVE ScanLists(_, _, _, _, _)
ScanLists(snapshot, i, id, episode, update) ==
    IF i > Len(snapshot) THEN [ret |-> NoResult, update |-> update]
    ELSE
      LET list == snapshot[i]
          m == FirstMatch(list.entries, 1, id)
      IN IF list.name = "Watching" /\ m # 0 THEN
             IF WatchingCheck(list.entries[m], episode) # NoResult
             THEN [ret |-> WatchingCheck(list.entries[m], episode), update |-> update]
             ELSE ScanLists(snapshot, i + 1, id, episode,
                      [id |-> list.entries[m].id,
                       entry |-> createUpdatedEntry(episode, list.entries[m].media.episodes)])
         ELSE IF list.name = "Planning" /\ m # 0 THEN
             IF PlanningCheck(list.entries[m], episode) # NoResult
             THEN [ret |-> PlanningCheck(list.entries[m], episode), update |-> update]
             ELSE ScanLists(snapshot, i + 1, id, episode,
                      [id |-> list.entries[m].id,
                       entry |-> createUpdatedEntry(episode, list.entries[m].media.episodes)])
         ELSE ScanLists(snapshot, i + 1, id, episode, update)

\* the season guard rejecting only the specials
UnsupportedSeason_Specials(season) == season < 1

\* season != 1 (line 88): only normal episodes are scrobbled
UnsupportedSeason(season) == season # 1

\* the retry loop making a fourth attempt
GiveUp_FourAttempts(resp, attempt) == resp # "e500" \/ attempt > maxAttempts

\* the retry loop retrying after every error
GiveUp_AnyError(resp, attempt) == attempt >= maxAttempts

\* the retry loop giving up after the second attempt
GiveUp_TwoAttempts(resp, attempt) == resp # "e500" \/ attempt >= maxAttempts - 1

\* whether a failed attempt is final (lines 163-169): the error is rethrown
GiveUp(resp, attempt) == resp # "e500" \/ attempt >= maxAttempts

\* apply update, try 3 times (lines 155-176)
RECURSIVE ApplyUpdate(_, _, _, _)
ApplyUpdate(update, attempt, o, calls) ==
    LET c == Call("update", update.id, update.entry.progress, update.entry.status,
                  NextResp(o, calls))
        cs == Append(calls, c)
    IN IF c.resp = "ok" THEN [calls |-> cs, thrown |-> FALSE]
       ELSE IF GiveUp(c.resp, attempt) THEN [calls |-> cs, thrown |-> TRUE]
       ELSE ApplyUpdate(update, attempt + 1, o, cs)

\* a result that looks at the status of the returned entry only
ResultOf_StatusOnly(entry, episode) ==
    IF entry.status = "COMPLETED" THEN Result(TRUE, "info", "completed")
    ELSE IF entry.status = "CURRENT" THEN Result(TRUE, "info", "updated")
    ELSE Result(FALSE, "error", "unexpected")

\* the result from the entry the upstream returned (lines 209-223)
ResultOf(entry, episode) ==
    IF entry.status = "COMPLETED" THEN Result(TRUE, "info", "completed")
    ELSE IF entry.status = "CURRENT" \/ entry.progress = episode
         THEN Result(TRUE, "info", "updated")
    ELSE Result(FALSE, "error", "unexpected")

\* the auto-add branch (lines 178-207), taken when no update was made
AddBranch(id, episode, aa, l, eps, o, calls) ==
    IF ~aa THEN [result |-> Result(FALSE, "warn", "not_tracked"), calls |-> calls]
    ELSE IF episode # 1 THEN [result |-> Result(FALSE, "warn", "add_not_first"), calls |-> calls]
    ELSE
      LET cm == Append(calls, Call("media", id, 0, NoStatus, NextResp(o, calls)))
      IN IF LastOf(cm).resp # "ok"
         THEN [result |-> Result(FALSE, "error", "add_failed"), calls |-> cm]
         ELSE
           LET e == createUpdatedEntry(episode, eps[id])
               ca == Append(cm, Call("add", id, e.progress, e.status, NextResp(o, cm)))
           IN IF LastOf(ca).resp # "ok"
              THEN [result |-> Result(FALSE, "error", "add_failed"), calls |-> ca]
              ELSE [result |-> ResultOf(UpdatedEntry(Remote(l, cm), LastOf(ca)), episode),
                    calls |-> ca]

\* AnilistScrobbler.scrobble(id, episode, season)
scrobble(id, episode, season, pid, aa, l, eps, o, calls) ==
    IF pid = NoId THEN [result |-> Result(FALSE, "error", "not_initialized"), calls |-> calls]
    ELSE IF UnsupportedSeason(season) THEN [result |-> Result(FALSE, "warn", "season"), calls |-> calls]
    ELSE
      LET cl == Append(calls, Call("lists", pid, 0, NoStatus, NextResp(o, calls)))
      IN IF LastOf(cl).resp # "ok"
         THEN [result |-> Result(FALSE, "error", "exception"), calls |-> cl]
         ELSE
           LET scan == ScanLists(Snapshot(Remote(l, calls), eps), 1, id, episode, NoUpdate)
           IN IF scan.ret # NoResult THEN [result |-> scan.ret, calls |-> cl]
              ELSE IF scan.update # NoUpdate THEN
                  LET ap == ApplyUpdate(scan.update, 1, o, cl)
                  IN IF ap.thrown
                     THEN [result |-> Result(FALSE, "error", "exception"), calls |-> ap.calls]
                     ELSE [result |-> ResultOf(
                                UpdatedEntry(Remote(l, cl), LastOf(ap.calls)), episode),
                           calls |-> ap.calls]
              ELSE AddBranch(id, episode, aa, l, eps, o, cl)

----------------------------------------------------------------------------
(* The classes of unnamed/part_005 (autoAdd) and unnamed/part_004 (multi-user): *)
(* scrobble writes inside the loop over the lists, without retry               *)

\* no entry returned (let result: UpdatedEntry | undefined)
NoEntry == [status |-> "NONE", progress |-> 0]

\* part_004: the updated entry built inline (lines 267-273 and 296-303)
InlineUpdatedEntry(listName, episode, maxEpisodes) ==
    [status |-> IF maxEpisodes # NoEpisodes /\ episode = maxEpisodes THEN "COMPLETED"
                ELSE IF listName = "Planning" THEN "CURRENT" ELSE NoStatus,
     progress |-> episode]

\* the updated entry of a revision: part_005 calls createUpdatedEntry
EntryFor(rev, listName, episode, maxEpisodes) ==
    IF rev = "autoadd" THEN createUpdatedEntry(episode, maxEpisodes)
    ELSE InlineUpdatedEntry(listName, episode, maxEpisodes)

\* the loop over the lists with its writes (part_005 112-171, part_004 241-313)
\* acc: [calls, result, ret, thrown]
RECURSIVE ScanAndWrite(_, _, _, _, _, _, _, _)
ScanAndWrite(rev, snapshot, i, id, episode, l, o, acc) ==
    IF i > Len(snapshot) THEN acc
    ELSE
      LET list == snapshot[i]
          m == FirstMatch(list.entries, 1, id)
          check == IF list.name = "Watching" THEN WatchingCheck(list.entries[m], episode)
                   ELSE PlanningCheck(list.entries[m], episode)
          e == EntryFor(rev, list.name, episode, list.entries[m].media.episodes)
          c == Call("update", list.entries[m].id, e.progress, e.status,
                    NextResp(o, acc.calls))
      IN IF list.name \in {"Watching", "Planning"} /\ m # 0 THEN
             IF check # NoResult THEN [acc EXCEPT !.ret = check]
             ELSE IF c.resp # "ok"
                  THEN [acc EXCEPT !.calls = Append(acc.calls, c), !.thrown = TRUE]
             ELSE ScanAndWrite(rev, snapshot, i + 1, id, episode, l, o,
                      [acc EXCEPT !.calls = Append(acc.calls, c),
                                  !.result = UpdatedEntry(Remote(l, acc.calls), c)])
         ELSE ScanAndWrite(rev, snapshot, i + 1, id, episode, l, o, acc)

\* what scrobble returns once the loop has ended
AfterScan(acc, episode, missing) ==
    IF acc.thrown THEN Result(FALSE, "error", "exception")
    ELSE IF acc.ret # NoResult THEN acc.ret
    ELSE IF acc.result = NoEntry THEN missing
    ELSE ResultOf(acc.result, episode)

\* cmd/webhook/playbackstop.ts: AnilistScrobbler.scrobble (lines 71-191), the class
\* runBackfill uses: the entries are built inline and a show on no list is not added
scrobble_playbackstop(id, episode, season, pid, l, eps, o, calls) ==
    IF pid = NoId THEN [result |-> Result(FALSE, "error", "not_initialized"), calls |-> calls]
    ELSE IF UnsupportedSeason(season) THEN [result |-> Result(FALSE, "warn", "season"), calls |-> calls]
    ELSE
      LET cl == Append(calls, Call("lists", pid, 0, NoStatus, NextResp(o, calls)))
          acc == ScanAndWrite("inline", Snapshot(Remote(l, calls), eps), 1, id, episode, l, o,
                     [calls |-> cl, result |-> NoEntry, ret |-> NoResult, thrown |-> FALSE])
      IN IF LastOf(cl).resp # "ok"
         THEN [result |-> Result(FALSE, "error", "exception"), calls |-> cl]
         ELSE [result |-> AfterScan(acc, episode, Result(FALSE, "warn", "not_tracked")),
               calls |-> acc.calls]

\* part_005: AnilistScrobbler.scrobble (lines 91-217)
scrobble_autoadd(id, episode, season, pid, aa, l, eps, o, calls) ==
    IF pid = NoId THEN [result |-> Result(FALSE, "error", "not_initialized"), calls |-> calls]
    ELSE IF UnsupportedSeason(season) THEN [result |-> Result(FALSE, "warn", "season"), calls |-> calls]
    ELSE
      LET cl == Append(calls, Call("lists", pid, 0, NoStatus, NextResp(o, calls)))
          acc == ScanAndWrite("autoadd", Snapshot(Remote(l, calls), eps), 1, id, episode, l, o,
                     [calls |-> cl, result |-> NoEntry, ret |-> NoResult, thrown |-> FALSE])
          e == createUpdatedEntry(episode, NoEpisodes)
          ca == Append(acc.calls, Call("add", id, e.progress, e.status, NextResp(o, acc.calls)))
      IN IF LastOf(cl).resp # "ok"
         THEN [result |-> Result(FALSE, "error", "exception"), calls |-> cl]
         ELSE IF acc.thrown \/ acc.ret # NoResult \/ acc.result # NoEntry
         THEN [result |-> AfterScan(acc, episode, NoResult), calls |-> acc.calls]
         ELSE IF ~aa
         THEN [result |-> Result(FALSE, "warn", "not_tracked"), calls |-> acc.calls]
         ELSE IF LastOf(ca).resp # "ok"
         THEN [result |-> Result(FALSE, "error", "add_failed"), calls |-> ca]
         ELSE [result |-> ResultOf(UpdatedEntry(Remote(l, acc.calls), LastOf(ca)), episode),
               calls |-> ca]

\* part_004: whether the show is in any list (lines 206-215)
animeFound(snapshot, id) ==
    \E i \in 1..Len(snapshot) :
        \E j \in 1..Len(snapshot[i].entries) : snapshot[i].entries[j].media.id = id

\* part_004: AnilistScrobbler.scrobble (lines 183-344)
scrobble_multi(id, episode, season, pid, l, eps, o, calls) ==
    IF pid = NoId THEN [result |-> Result(FALSE, "error", "not_initialized"), calls |-> calls]
    ELSE IF UnsupportedSeason(season) THEN [result |-> Result(FALSE, "warn", "season"), calls |-> calls]
    ELSE
      LET c1 == Append(calls, Call("lists", pid, 0, NoStatus, NextResp(o, calls)))
          found == animeFound(Snapshot(Remote(l, calls), eps), id)
          ca == IF found THEN c1
                ELSE Append(c1, Call("add", id, episode, "CURRENT", NextResp(o, c1)))
          added == IF found THEN NoEntry ELSE UpdatedEntry(Remote(l, c1), LastOf(ca))
          c2 == Append(ca, Call("lists", pid, 0, NoStatus, NextResp(o, ca)))
          acc == ScanAndWrite("multi", Snapshot(Remote(l, ca), eps), 1, id, episode, l, o,
                     [calls |-> c2, result |-> added, ret |-> NoResult, thrown |-> FALSE])
      IN IF LastOf(c1).resp # "ok"
         THEN [result |-> Result(FALSE, "error", "exception"), calls |-> c1]
         ELSE IF ~found /\ LastOf(ca).resp # "ok"
         THEN [result |-> Result(FALSE, "error", "add_failed"), calls |-> ca]
         ELSE IF LastOf(c2).resp # "ok"
         THEN [result |-> Result(FALSE, "error", "exception"), calls |-> c2]
         ELSE [result |-> AfterScan(acc, episode, Result(FALSE, "warn", "not_tracked")),
               calls |-> acc.calls]

\* the search of the lists that passes over an entry whose progress is 0 already
RECURSIVE FirstEntryAnyList_Progressed(_, _, _)
FirstEntryAnyList_Progressed(snapshot, i, id) ==
    IF i > Len(snapshot) THEN NoId
    ELSE LET hits == {j \in 1..Len(snapshot[i].entries) :
                         snapshot[i].entries[j].media.id = id
                         /\ snapshot[i].entries[j].id # NoId
                         /\ snapshot[i].entries[j].progress > 0}
         IN IF hits = {} THEN FirstEntryAnyList_Progressed(snapshot, i + 1, id)
            ELSE snapshot[i].entries[CHOOSE j \in hits : \A k \in hits : j <= k].id

\* part_004: the first entry of any list whose media.id is id and that has an id
RECURSIVE FirstEntryAnyList(_, _, _)
FirstEntryAnyList(snapshot, i, id) ==
    IF i > Len(snapshot) THEN NoId
    ELSE LET hits == {j \in 1..Len(snapshot[i].entries) :
                         snapshot[i].entries[j].media.id = id
                         /\ snapshot[i].entries[j].id # NoId}
         IN IF hits = {} THEN FirstEntryAnyList(snapshot, i + 1, id)
            ELSE snapshot[i].entries[CHOOSE j \in hits : \A k \in hits : j <= k].id

\* the update of an unwatched episode that also moves the entry to Planning
unwatchedUpdatedEntry_Planning == [status |-> "PLANNING", progress |-> 0]

\* part_004: the update of an unwatched episode (lines 792-794): progress 0, no status
unwatchedUpdatedEntry == [status |-> NoStatus, progress |-> 0]

\* part_004: AnilistScrobbler.handleUnwatchedEpisode (lines 767-822)
handleUnwatchedEpisode(id, episode, season, pid, l, eps, o, calls) ==
    IF pid = NoId THEN [result |-> Result(FALSE, "error", "not_initialized"), calls |-> calls]
    ELSE IF UnsupportedSeason(season) THEN [result |-> Result(FALSE, "warn", "season"), calls |-> calls]
    ELSE
      LET cl == Append(calls, Call("lists", pid, 0, NoStatus, NextResp(o, calls)))
          entryId == FirstEntryAnyList(Snapshot(Remote(l, calls), eps), 1, id)
          cu == Append(cl, Call("update", entryId, unwatchedUpdatedEntry.progress,
                                unwatchedUpdatedEntry.status, NextResp(o, cl)))
      IN IF LastOf(cl).resp # "ok"
         THEN [result |-> Result(FALSE, "error", "exception"), calls |-> cl]
         ELSE IF entryId = NoId
         THEN [result |-> Result(FALSE, "warn", "not_found"), calls |-> cl]
         ELSE IF LastOf(cu).resp # "ok"
         THEN [result |-> Result(FALSE, "error", "exception"), calls |-> cu]
         ELSE [result |-> Result(TRUE, "info", "reset"), calls |-> cu]

----------------------------------------------------------------------------
(* The webhook handlers *)

\* parseInt of a string that is not a number
NaN == -1

\* the response when the handler throws: no Response is returned to Bun.serve
Escaped == 0

\* the play-state detection attempts (const maxRetries = 3)
maxRetries == 3

\* the values of the AniList provider id Jellyfin holds for the series of an event:
\* none, not a number, zero, the id of show 2 (show 1 is on the list but never played)
Providers == {"", "x", "0", "2"}

\* a parser reading the id of show 2 out of anything that is not a number
parseInt_Lenient(str) ==
    CASE str = "0" -> 0
      [] str = "1" -> 1
      [] OTHER -> 2

\* parseInt(anilistIdString, 10)
parseInt(str) ==
    CASE str = "0" -> 0
      [] str = "1" -> 1
      [] str = "2" -> 2
      [] OTHER -> NaN

\* const anilistId = anilistIdString ? parseInt(anilistIdString, 10) : 0
anilistIdOf(str) == IF str = "" THEN 0 ELSE parseInt(str)

\* anilistId == 0 || isNaN(anilistId)
InvalidId(anilistId) == anilistId = 0 \/ anilistId = NaN

\* an incoming event: the payload fields the handlers read
Ev(handler, itemType, ptc, saveReason, played, username, provider, episode, season) ==
    [handler |-> handler, itemType |-> itemType, ptc |-> ptc, saveReason |-> saveReason,
     played |-> played, username |-> username, provider |-> provider,
     episode |-> episode, season |-> season]

\* what a handler did: the HTTP status, the ScrobbleResult, the upstream calls,
\* and whether scrobble (forward) or handleUnwatchedEpisode (correction) ran
Out(status, result, calls, path) ==
    [status |-> status, result |-> result, calls |-> calls, path |-> path]

\* the mapping that answers every failure as a client fault
StatusOf_AlwaysClientFault(result) == IF result.success THEN 200 ELSE 400

\* the level the handler logs its outcome at: log(errorMsg, "error", reqid) before the 404,
\* "done" for a success and result.level for any other ScrobbleResult
LoggedLevel(out) ==
    IF out.status = 404 THEN "error"
    ELSE IF out.result \in {NoResult, Thrown} THEN "none"
    ELSE IF out.result.success THEN "done"
    ELSE out.result.level

\* the Response built from a ScrobbleResult
StatusOf(result) ==
    IF result.success THEN 200 ELSE IF result.level = "error" THEN 500 ELSE 400

Respond(r, path) == Out(StatusOf(r.result), r.result, r.calls, path)

\* api.getProviderFromSeries(payload.SeriesId, "anilist"): the call, as logged
Catalog(o, calls) == Append(calls, Call("catalog", 0, 0, NoStatus, NextResp(o, calls)))

\* the gate letting through everything but an unfinished playback of another item
NotScrobbled_OnlyWhenBoth(ev) == ~ev.ptc /\ ev.itemType # "Episode"

\* webhookPlaybackStop: if (!payload.PlayedToCompletion || payload.ItemType != "Episode")
NotScrobbled(ev) == ~ev.ptc \/ ev.itemType # "Episode"

\* unnamed/part_005 (lines 320-380): webhookPlaybackStop(payload, reqid, api, scrobbler),
\* the handler cmd/webhook.ts imports from cmd/webhook/playbackstop
webhookPlaybackStop(ev, st, o) ==
    LET cc == Catalog(o, <<>>)
        anilistId == anilistIdOf(ev.provider)
    IN IF NotScrobbled(ev) THEN Out(200, NoResult, <<>>, "none")
       ELSE IF LastOf(cc).resp # "ok" THEN Out(Escaped, Thrown, cc, "none")
       ELSE IF InvalidId(anilistId) THEN Out(404, NoResult, cc, "none")
       ELSE Respond(scrobble(anilistId, ev.episode, ev.season, st.pid, st.aa, st.l, st.eps,
                             o, cc), "forward")

\* cmd/webhook/userdatasaved.ts: webhookUserDataSaved(payload, reqid, api, scrobbler)
webhookUserDataSaved(ev, st, o) ==
    LET cc == Catalog(o, <<>>)
        anilistId == anilistIdOf(ev.provider)
    IN IF ev.saveReason # "TogglePlayed" \/ ~ev.played \/ ev.itemType # "Episode"
       THEN Out(200, NoResult, <<>>, "none")
       ELSE IF LastOf(cc).resp # "ok" THEN Out(Escaped, Thrown, cc, "none")
       ELSE IF InvalidId(anilistId) THEN Out(404, NoResult, cc, "none")
       ELSE Respond(scrobble(anilistId, ev.episode, ev.season, st.pid, st.aa, st.l, st.eps,
                             o, cc), "forward")

\* part_005: AnilistScrobbler.webhookPlaybackStop(payload, reqid)
webhookPlaybackStop_autoadd(ev, st, o) ==
    LET cc == Catalog(o, <<>>)
        anilistId == anilistIdOf(ev.provider)
    IN IF NotScrobbled(ev) THEN Out(200, NoResult, <<>>, "none")
       ELSE IF LastOf(cc).resp # "ok" THEN Out(Escaped, Thrown, cc, "none")
       ELSE IF InvalidId(anilistId) THEN Out(404, NoResult, cc, "none")
       ELSE Respond(scrobble_autoadd(anilistId, ev.episode, ev.season, st.pid, st.aa, st.l,
                                     st.eps, o, cc), "forward")

\* the lookup without the fall back to the global token
getUserAniListToken_NoFallback(st, username) ==
    IF username \in DOMAIN st.users THEN st.users[username] ELSE ""

\* part_004: getUserAniListToken(username): "" when no token is configured
getUserAniListToken(st, username) ==
    IF username \in DOMAIN st.users THEN st.users[username] ELSE st.token

\* part_004: userScrobbler.init() of the scrobbler made for the event
UserInit(o, calls) == Append(calls, Call("auth", 0, 0, NoStatus, NextResp(o, calls)))

\* part_004: AnilistScrobbler.webhookPlaybackStop(payload, reqid)
webhookPlaybackStop_multi(ev, st, o) ==
    LET cc == Catalog(o, <<>>)
        anilistId == anilistIdOf(ev.provider)
        ci == UserInit(o, cc)
    IN IF NotScrobbled(ev) THEN Out(200, NoResult, <<>>, "none")
       ELSE IF ev.username = "" THEN Out(400, NoResult, <<>>, "none")
       ELSE IF getUserAniListToken(st, ev.username) = "" THEN Out(400, NoResult, <<>>, "none")
       ELSE IF LastOf(cc).resp # "ok" THEN Out(Escaped, Thrown, cc, "none")
       ELSE IF InvalidId(anilistId) THEN Out(404, NoResult, cc, "none")
       ELSE IF LastOf(ci).resp # "ok" THEN Out(Escaped, Thrown, ci, "none")
       ELSE Respond(scrobble_multi(anilistId, ev.episode, ev.season, TheProfile, st.l, st.eps,
                                   o, ci), "forward")

\* the detection taking an episode whose play state is unknown for unwatched
AssumedWatched_Unwatched == FALSE

\* "Fallback failed, assuming episode is watched for safety": isEpisodeWatched = true
AssumedWatched == TRUE

\* part_004: the play-state detection of webhookUserDataSaved (lines 599-689);
\* Jellyfin reports the play state the event carries
RECURSIVE DetectPlayState(_, _, _, _)
DetectPlayState(ev, retryCount, o, calls) ==
    LET ce == Append(calls, Call("episodeInfo", 0, 0, NoStatus, NextResp(o, calls)))
        cu == Append(ce, Call("users", 0, 0, NoStatus, NextResp(o, ce)))
        cs == Append(cu, Call("seriesEpisodes", 0, 0, NoStatus, NextResp(o, cu)))
    IN IF LastOf(ce).resp = "ok" THEN [watched |-> ev.played, calls |-> ce]
       ELSE IF retryCount + 1 < maxRetries THEN DetectPlayState(ev, retryCount + 1, o, ce)
       ELSE IF LastOf(cu).resp # "ok" THEN [watched |-> AssumedWatched, calls |-> cu]
       ELSE IF LastOf(cs).resp # "ok" THEN [watched |-> AssumedWatched, calls |-> cs]
       ELSE [watched |-> ev.played, calls |-> cs]

\* part_004: AnilistScrobbler.webhookUserDataSaved(payload, reqid)
webhookUserDataSaved_multi(ev, st, o) ==
    LET cc == Catalog(o, <<>>)
        anilistId == anilistIdOf(ev.provider)
        det == DetectPlayState(ev, 0, o, cc)
        ci == UserInit(o, det.calls)
    IN IF ev.itemType # "Episode" THEN Out(200, NoResult, <<>>, "none")
       ELSE IF ev.username = "" THEN Out(400, NoResult, <<>>, "none")
       ELSE IF getUserAniListToken(st, ev.username) = "" THEN Out(400, NoResult, <<>>, "none")
       ELSE IF LastOf(cc).resp # "ok" THEN Out(Escaped, Thrown, cc, "none")
       ELSE IF InvalidId(anilistId) THEN Out(404, NoResult, cc, "none")
       ELSE IF LastOf(ci).resp # "ok" THEN Out(Escaped, Thrown, ci, "none")
       ELSE IF ~det.watched
       THEN Respond(handleUnwatchedEpisode(anilistId, ev.episode, ev.season, TheProfile,
                                           st.l, st.eps, o, ci), "correction")
       ELSE Respond(scrobble_multi(anilistId, ev.episode, ev.season, TheProfile, st.l, st.eps,
                                   o, ci), "forward")

----------------------------------------------------------------------------
(* Events and upstream answers *)

\* config.anilist.users (username -> token) and config.anilist.token when it is set
ConfigUsers == [u \in {"alice"} |-> "alice-token"]
ConfigToken == "global-token"

\* the state a handler reads
St == [l |-> lists, eps |-> episodes, aa |-> autoAdd, pid |-> profileId,
       users |-> ConfigUsers, token |-> sharedToken]

Handlers == {"webhookPlaybackStop", "webhookUserDataSaved", "webhookPlaybackStop_autoadd",
             "webhookPlaybackStop_multi", "webhookUserDataSaved_multi"}

\* the handler of the event, run against the state with the upstream answers o
Run(ev, st, o) ==
    CASE ev.handler = "webhookPlaybackStop" -> webhookPlaybackStop(ev, st, o)
      [] ev.handler = "webhookUserDataSaved" -> webhookUserDataSaved(ev, st, o)
      [] ev.handler = "webhookPlaybackStop_autoadd" -> webhookPlaybackStop_autoadd(ev, st, o)
      [] ev.handler = "webhookPlaybackStop_multi" -> webhookPlaybackStop_multi(ev, st, o)
      [] ev.handler = "webhookUserDataSaved_multi" -> webhookUserDataSaved_multi(ev, st, o)

\* no handler makes more calls than this for one event
MaxCalls == maxRetries + maxAttempts + 6

Pad(prefix) == prefix \o [i \in 1..(MaxCalls - Len(prefix)) |-> "ok"]

\* the answers the upstream can give to a call: a read succeeds or fails, and so
\* does a write that is made once; a write of scrobbler.ts meets every answer
RespFor(ev, op) ==
    IF op \in {"update", "add"}
       /\ ev.handler \in {"webhookPlaybackStop", "webhookUserDataSaved"}
    THEN Resp ELSE {"ok", "e500"}

\* every sequence of upstream answers the handler can meet; the answers to the
\* calls it does not make are left "ok", as they are never read
RECURSIVE Oracles(_, _, _)
Oracles(ev, st, prefix) ==
    LET calls == Run(ev, st, Pad(prefix)).calls
    IN IF Len(calls) <= Len(prefix) THEN {Pad(prefix)}
       ELSE UNION {Oracles(ev, st, Append(prefix, x)) :
                      x \in RespFor(ev, calls[Len(prefix) + 1].op)}

EpisodeNumbers == 1..MaxEpisode
\* season 0 holds the specials
SeasonNumbers == 0..MaxSeason
ItemTypes == {"Episode", "Movie"}
SaveReasons == {"TogglePlayed", "PlaybackProgress"}
Usernames == {"", "alice", "bob"}

\* PlaybackStop events; the fields a rejected event never reads are left at one value
PlaybackStopEvents(h) ==
    {ev \in {Ev(h, t, p, "-", FALSE, u, pr, e, s) :
                 t \in ItemTypes, p \in BOOLEAN, u \in Usernames, pr \in Providers,
                 e \in EpisodeNumbers, s \in SeasonNumbers} :
        /\ (h # "webhookPlaybackStop_multi" => ev.username \in {"", "alice"})
        /\ (~ev.ptc \/ ev.itemType # "Episode"
                 \/ (h = "webhookPlaybackStop_multi" /\ ev.username = "")
               => ev.provider = "" /\ ev.username \in {"", "alice"})
        /\ (ev.username \in {"", "bob"} => ev.episode = 1 /\ ev.season = 1)
        /\ (InvalidId(anilistIdOf(ev.provider)) => ev.episode = 1 /\ ev.season = 1)}

\* UserDataSaved events
UserDataSavedEvents(h) ==
    {ev \in {Ev(h, t, FALSE, r, p, u, pr, e, s) :
                 t \in ItemTypes, r \in SaveReasons, p \in BOOLEAN, u \in Usernames,
                 pr \in Providers, e \in EpisodeNumbers, s \in SeasonNumbers} :
        /\ (h # "webhookUserDataSaved_multi" => ev.username \in {"", "alice"})
        /\ (ev.itemType # "Episode"
                 \/ (h = "webhookUserDataSaved_multi" /\ ev.username = "")
               => ev.provider = "" /\ ev.username \in {"", "alice"})
        /\ (ev.username \in {"", "bob"}
               => ev.episode = 1 /\ ev.season = 1 /\ ev.saveReason = "TogglePlayed")
        /\ (InvalidId(anilistIdOf(ev.provider)) => ev.episode = 1 /\ ev.season = 1)}

\* no event handled yet
NoEvent == Ev("none", "-", FALSE, "-", FALSE, "", "", 0, 0)

----------------------------------------------------------------------------
(* Requests in flight in the multi-user class of unnamed/part_004: the fetch  *)
(* callback is async, so a second request is handled while the first awaits   *)

\* the requests that are handled at once
Reqs == {1, 2}

\* the AnilistScrobbler that serves (this); a request's own object has the request's number
Dispatcher == 0

\* AniList: the profile of alice's token; TheProfile is the profile of the global token
AliceProfile == 2
Profiles == {TheProfile, AliceProfile}

\* api.user.getAuthorized(): the profile a token authenticates as
AuthorizedProfile(token) == IF token = ConfigToken THEN TheProfile ELSE AliceProfile

\* constructor: the first available token (lines 129-136)
DefaultToken(st) ==
    IF st.token # "" THEN st.token ELSE st.users[CHOOSE u \in DOMAIN st.users : TRUE]

\* new AnilistScrobbler(config): profileId is not set before init
NewScrobbler(st) == [api |-> DefaultToken(st), profileId |-> NoId]

\* setApi(api)
setApi(scrobbler, api) == [scrobbler EXCEPT !.api = api]

\* init(): this.profileId = profile.id
init(scrobbler) == [scrobbler EXCEPT !.profileId = AuthorizedProfile(scrobbler.api)]

\* the handlers running on the serving object instead of an object of their own
ScrobblerOf_Dispatcher(r) == Dispatcher

\* const userScrobbler = new AnilistScrobbler(this.config): one object per request
ScrobblerOf(r) == r

\* no write prepared
NoWrite == Call("none", NoId, 0, NoStatus, "ok")

\* a request slot with no request
Idle == [at |-> "idle", user |-> "", kind |-> "-", episode |-> 0, userToken |-> "",
         write |-> NoWrite, owner |-> NoId]

\* no AniList call made yet
NoAccess == [user |-> "", op |-> "none", token |-> "", profile |-> NoId, touched |-> {}]

\* the list a profile starts with: the show of the events is in no list or being watched
AccountLists ==
    {l \in [Shows -> Entries] :
        /\ l[1] = [status |-> "CURRENT", progress |-> 1]
        /\ l[2] \in {[status |-> "NONE", progress |-> 0], [status |-> "CURRENT", progress |-> 0]}}

\* no request in flight
NoFlight ==
    /\ req = [r \in Reqs |-> Idle]
    /\ scrobblers = [x \in {Dispatcher} \cup Reqs |-> NewScrobbler(St)]
    /\ accounts = [p \in Profiles |-> [s \in Shows |-> [status |-> "CURRENT", progress |-> 1]]]
    /\ access = NoAccess

----------------------------------------------------------------------------
(* lib/jellyfin/api.ts: getProviderFromSeries, and the client cache of cmd/webhook.ts *)

\* the records Jellyfin may return for one series id, the provider keys of a record
MaxRecords == 2
MaxProviders == 2

\* the provider names Jellyfin may use as keys, and the ids it may hold
ProviderNames == {"AniList", "anilist", "Tvdb", "tvdb"}
ProviderValues == {"2", "x"}

\* a comparison of the provider names as they are written
toLowerCase_Identity(str) == str

\* String.prototype.toLowerCase on the provider names
toLowerCase(str) ==
    CASE str = "AniList" -> "anilist"
      [] str = "Tvdb" -> "tvdb"
      [] OTHER -> str

\* undefined: no provider id
NotFound == ""

\* the loop over Object.keys(ProviderIds), in the order of the keys
RECURSIVE FirstProvider(_, _, _)
FirstProvider(providerIds, i, providerName) ==
    IF i > Len(providerIds) THEN NotFound
    ELSE IF toLowerCase(providerIds[i].key) = toLowerCase(providerName)
         THEN providerIds[i].value
    ELSE FirstProvider(providerIds, i + 1, providerName)

\* getProviderFromSeries(seriesId, providerName) on the answer res of GET /Items
getProviderFromSeries(res, providerName) ==
    IF res.TotalRecordCount # 1 THEN NotFound
    ELSE FirstProvider(res.Items[1].ProviderIds, 1, providerName)

\* ProviderIds of an item: up to MaxProviders keys, all different, each with an id
ProviderIdMaps ==
    UNION {{p \in [1..n -> [key : ProviderNames, value : ProviderValues]] :
               \A i, j \in 1..n : i # j => p[i].key # p[j].key} : n \in 0..MaxProviders}

\* the answers of GET /Items?ids=seriesId: the records after the first are all alike
ItemsAnswers ==
    {[TotalRecordCount |-> n,
      Items |-> [i \in 1..n |-> [ProviderIds |-> IF i = 1 THEN p ELSE <<>>]]] :
        n \in 0..MaxRecords, p \in ProviderIdMaps}

\* no lookup made yet
NoLookup == [res |-> [TotalRecordCount |-> 0, Items |-> <<>>], providerName |-> "",
             result |-> NotFound]

\* payload.ServerUrl of the Jellyfin servers that send events
Urls == {"http://jf1:8096", "http://jf2:8096"}

\* jellyfinApi[url] === undefined
NoClient == 0

\* req.method, and the user-agent header as its product token and the rest
\* (<<>> when the request has no such header)
Methods == {"POST", "GET"}
Agents == {<<"Jellyfin-Server/", "10.9.0">>, <<"curl/", "8.5.0">>,
           <<"Mozilla/", "Jellyfin-Server/">>, <<>>}

\* String.prototype.startsWith on a header split into tokens
startsWith(str, prefix) == Len(str) > 0 /\ str[1] = prefix

\* a server that looks at the user agent only
Accepted_AnyMethod(method, agent) == startsWith(agent, "Jellyfin-Server/")

\* cmd/webhook.ts lines 55-58: a POST from a Jellyfin server
Accepted(method, agent) == method = "POST" /\ startsWith(agent, "Jellyfin-Server/")

NOTIFICATION_TYPES == {"PlaybackStop", "UserDataSaved"}

\* payload.NotificationType of the webhook plugin
NotificationTypes == NOTIFICATION_TYPES \cup {"ItemAdded"}

\* a cache that is never looked at
Cached_Never(cache, url) == FALSE

\* jellyfinApi[payload.ServerUrl] !== undefined (line 88)
Cached(cache, url) == cache[url] # NoClient

\* no Response yet
Pending == -1

\* fetch(req) not called
Waiting == [at |-> "idle", method |-> "-", agent |-> <<>>, type |-> "-", url |-> "-",
            handler |-> "none",
            episode |-> 0, update |-> NoUpdate, attempt |-> 0, called |-> FALSE,
            status |-> Pending]

\* the show the events are about
TheShow == 2

\* the orders in which api.lists.anime may return the three lists
ListOrders ==
    {o \in [1..3 -> {"Watching", "Planning", "Completed"}] :
        \A i, j \in 1..3 : i # j => o[i] # o[j]}

\* the lists AniList may return: in any order, the entry of the show on any of them (a
\* custom list may carry the name of a status list), the entry of another show ahead of it
\* on Watching
ListCollections ==
    {[i \in 1..3 |->
        [name |-> o[i],
         entries |->
            (IF o[i] = "Watching"
             THEN <<[id |-> EntryIdOf(1), media |-> [id |-> 1, episodes |-> MaxEpisode],
                     progress |-> 1]>>
             ELSE <<>>)
            \o (IF o[i] \in members
                THEN <<[id |-> EntryIdOf(TheShow),
                        media |-> [id |-> TheShow, episodes |-> eps], progress |-> p]>>
                ELSE <<>>)]] :
        o \in ListOrders, members \in SUBSET {"Watching", "Planning", "Completed"},
        p \in 0..MaxEpisode, eps \in {NoEpisodes} \cup 1..MaxEpisode}

\* the loop has not run
NoScan == [snapshot |-> <<>>, episode |-> 0, out |-> [ret |-> NoResult, update |-> NoUpdate]]

\* the played episodes Jellyfin returns for one series
MaxWatched == 2

\* a field the item does not have (ParentIndexNumber?, IndexNumber?)
Missing == -1

\* x ?? d
Nullish(x, d) == IF x = Missing THEN d ELSE x

\* the items of getPlayedEpisodesForSeries: season 1, another season or none; an episode
\* number or none
PlayedItems == [ParentIndexNumber : {Missing, 1, 2}, IndexNumber : {Missing} \cup EpisodeNumbers]

WatchedLists == UNION {[1..n -> PlayedItems] : n \in 0..MaxWatched}

\* a backfill that counts the episodes of every season
SeasonOne_Any(ep) == TRUE

\* (ep.ParentIndexNumber ?? 0) !== 1 -> continue (sync.ts line 54): season 1 only
SeasonOne(ep) == Nullish(ep.ParentIndexNumber, 0) = 1

\* the loop over watched.Items (sync.ts lines 52-56)
RECURSIVE maxEp(_, _, _)
maxEp(watched, i, acc) ==
    IF i > Len(watched) THEN acc
    ELSE IF ~SeasonOne(watched[i]) THEN maxEp(watched, i + 1, acc)
    ELSE IF Nullish(watched[i].IndexNumber, 0) > acc
         THEN maxEp(watched, i + 1, Nullish(watched[i].IndexNumber, 0))
    ELSE maxEp(watched, i + 1, acc)

\* runBackfill is not running
NoBackfill == [at |-> "idle", ran |-> FALSE, failed |-> FALSE, provider |-> "",
               watched |-> <<>>, scrobbles |-> <<>>]

\* MediaListStatus of the entry a write returns
ReturnedStatuses == {"CURRENT", "PLANNING", "COMPLETED", "DROPPED", "PAUSED", "REPEATING"}

\* the UpdatedEntry values updateEntry and addEntry may return
ReturnedEntries == [status : ReturnedStatuses, progress : 0..MaxEpisode]

\* no write has returned
NoJudged == [op |-> "none", id |-> NoId, entry |-> NoEntry, episode |-> 0, result |-> NoResult]

\* the detection is not running
NoDetect == [at |-> "idle", retryCount |-> 0, isEpisodeWatched |-> FALSE, played |-> FALSE,
             asked |-> [direct |-> 0, users |-> 0, series |-> 0]]

\* const jellyfinApi = {}, no request, and no lookup made
NoServer ==
    /\ jellyfinApi = [u \in Urls |-> NoClient]
    /\ created = 0
    /\ lookup = NoLookup
    /\ served = [r \in Reqs |-> Waiting]
    /\ met = [r \in Reqs |-> "none"]
    /\ scanned = NoScan
    /\ backfill = NoBackfill
    /\ judged = NoJudged
    /\ detect = NoDetect

----------------------------------------------------------------------------
(* Actions *)

TypeOK ==
    /\ lists \in [Shows -> Entries]
    /\ episodes \in [Shows -> 0..MaxEpisode]
    /\ autoAdd \in BOOLEAN
    /\ sharedToken \in {"", ConfigToken}
    /\ profileId \in {NoId, TheProfile}
    /\ pc \in {"start", "listening", "responded", "exited"}
    /\ req \in [Reqs -> [at : {"idle", "catalog", "init", "lists1", "add", "lists2",
                                "lists", "update"},
                         user : Usernames, kind : {"-", "forward", "correction"},
                         episode : 0..MaxEpisode, userToken : {"", ConfigToken, "alice-token"},
                         write : {NoWrite} \cup
                                 {Call("update", EntryIdOf(2), e, st, "ok") :
                                     e \in 0..MaxEpisode, st \in Statuses \cup {NoStatus}},
                         owner : {NoId} \cup Profiles]]
    /\ scrobblers \in [{Dispatcher} \cup Reqs ->
                          [api : {ConfigToken, "alice-token"}, profileId : {NoId} \cup Profiles]]
    /\ accounts \in [Profiles -> [Shows -> Entries]]
    /\ access \in [user : Usernames, op : {"none", "auth", "lists", "add", "update"},
                    token : {"", ConfigToken, "alice-token"}, profile : {NoId} \cup Profiles,
                    touched : SUBSET Profiles]
    /\ jellyfinApi \in [Urls -> 0..Cardinality(Urls)]
    /\ created \in 0..Cardinality(Urls)
    /\ lookup.res \in ItemsAnswers
    /\ \A r \in Reqs :
          /\ served[r].at \in {"idle", "json", "catalog", "lists", "media", "add", "update",
                               "backoff", "done"}
          /\ met[r] \in {"none", "received", "answered"}
          /\ served[r].status \in {Pending, Escaped, 200, 400, 403, 404, 500}
          /\ served[r].episode \in 0..MaxEpisode

\* after new AnilistScrobbler(config): any list the user may have at AniList
Init ==
    /\ lists \in [Shows -> Entries]
    /\ lists[1] = [status |-> "CURRENT", progress |-> 1]
    /\ episodes \in [Shows -> 0..MaxEpisode]
    /\ episodes[1] = MaxEpisode
    /\ autoAdd \in BOOLEAN
    /\ sharedToken \in {"", ConfigToken}
    /\ profileId = NoId
    /\ pc = "start"
    /\ last = [ev |-> NoEvent, pre |-> lists, out |-> Out(Escaped, NoResult, <<>>, "none")]
    /\ NoFlight
    /\ NoServer

\* webhookAction: await anilistScrobbler.init(), then Bun.serve; the single-account
\* scrobblers authenticate with config.anilist.token and serve only when it is set
ScrobblerInit ==
    /\ pc = "start"
    /\ \E ok \in BOOLEAN :
          /\ profileId' = IF ok THEN TheProfile ELSE NoId
          /\ pc' = IF ok THEN "listening" ELSE "exited"
    /\ UNCHANGED <<lists, episodes, autoAdd, sharedToken, last, flight, aside>>

\* the handler of an event, from the request to the response
Handle(ev, o) ==
    LET out == Run(ev, St, o)
    IN /\ lists' = Remote(lists, out.calls)
       /\ last' = [ev |-> ev, pre |-> lists, out |-> out]
       /\ pc' = "responded"
       /\ UNCHANGED <<episodes, autoAdd, sharedToken, profileId, flight, aside>>

OnPlaybackStop ==
    /\ pc = "listening"
    /\ sharedToken # ""
    /\ \E ev \in PlaybackStopEvents("webhookPlaybackStop") :
          \E o \in Oracles(ev, St, <<>>) : Handle(ev, o)

OnUserDataSaved ==
    /\ pc = "listening"
    /\ sharedToken # ""
    /\ \E ev \in UserDataSavedEvents("webhookUserDataSaved") :
          \E o \in Oracles(ev, St, <<>>) : Handle(ev, o)

OnPlaybackStopAutoadd ==
    /\ pc = "listening"
    /\ sharedToken # ""
    /\ \E ev \in PlaybackStopEvents("webhookPlaybackStop_autoadd") :
          \E o \in Oracles(ev, St, <<>>) : Handle(ev, o)

OnPlaybackStopMulti ==
    /\ pc = "listening"
    /\ \E ev \in PlaybackStopEvents("webhookPlaybackStop_multi") :
          \E o \in Oracles(ev, St, <<>>) : Handle(ev, o)

OnUserDataSavedMulti ==
    /\ pc = "listening"
    /\ \E ev \in UserDataSavedEvents("webhookUserDataSaved_multi") :
          \E o \in Oracles(ev, St, <<>>) : Handle(ev, o)

\* the response is sent; the server waits for the next request
NextRequest ==
    /\ pc = "responded"
    /\ pc' = "listening"
    /\ last' = [ev |-> NoEvent, pre |-> lists, out |-> Out(Escaped, NoResult, <<>>, "none")]
    /\ UNCHANGED <<lists, episodes, autoAdd, sharedToken, profileId, flight, aside>>

Next ==
    \/ ScrobblerInit
    \/ OnPlaybackStop
    \/ OnUserDataSaved
    \/ OnPlaybackStopAutoadd
    \/ OnPlaybackStopMulti
    \/ OnUserDataSavedMulti
    \/ NextRequest

Spec == Init /\ [][Next]_vars

----------------------------------------------------------------------------
(* The multi-user handlers of unnamed/part_004 step by step: one action per   *)
(* stretch of code between two awaits, for events about show 2 in season 1    *)
(* that pass the gating. A request that ends frees its slot.                  *)

\* the variables of the event-at-a-time specification
atomic == <<lists, episodes, autoAdd, profileId, pc, last>>

InitFlight ==
    /\ lists = [s \in Shows |-> [status |-> "CURRENT", progress |-> 1]]
    /\ episodes = [s \in Shows |-> MaxEpisode]
    /\ autoAdd = FALSE
    /\ sharedToken \in {"", ConfigToken}
    /\ profileId = TheProfile
    /\ pc = "listening"
    /\ last = [ev |-> NoEvent, pre |-> lists, out |-> Out(Escaped, NoResult, <<>>, "none")]
    /\ req = [r \in Reqs |-> Idle]
    /\ scrobblers = [x \in {Dispatcher} \cup Reqs |-> NewScrobbler(St)]
    /\ accounts \in [Profiles -> AccountLists]
    /\ access = NoAccess
    /\ NoServer

\* the upstream call of a request: who asked, with which token, for which profile, and the
\* profiles whose list the call changed
Access(r, op, token, profile, after) ==
    [user |-> req[r].user, op |-> op, token |-> token, profile |-> profile,
     touched |-> {p \in Profiles : after[p] # accounts[p]}]

\* the response is returned (or the exception leaves the handler): the locals and the
\* request's scrobbler object are gone
Return(r) ==
    /\ req' = [req EXCEPT ![r] = Idle]
    /\ scrobblers' = [scrobblers EXCEPT ![r] = NewScrobbler(St)]

\* webhookPlaybackStop 353-432 / webhookUserDataSaved 497-572: the username and the token
\* are checked, then the handler awaits the Jellyfin lookup; a request without token is
\* answered 400 at once and leaves no trace
Receive(r) ==
    /\ req[r].at = "idle"
    /\ \E user \in Usernames \ {""}, kind \in {"forward", "correction"},
          episode \in EpisodeNumbers :
          /\ kind = "correction" => episode = 1
          /\ getUserAniListToken(St, user) # ""
          /\ req' = [req EXCEPT ![r] = [Idle EXCEPT !.at = "catalog", !.user = user,
                                          !.kind = kind, !.episode = episode,
                                          !.userToken = getUserAniListToken(St, user)]]
    /\ UNCHANGED <<scrobblers, accounts, access, sharedToken, atomic, aside>>

\* 432-465 / 570-705 / 570-739: the lookup (and the play-state detection) returns, the
\* handler builds userApi and userScrobbler and awaits userScrobbler.init()
CatalogLookup(r) ==
    /\ req[r].at = "catalog"
    /\ \E ok \in BOOLEAN :
          IF ok
          THEN /\ scrobblers' = [scrobblers EXCEPT ![ScrobblerOf(r)] =
                                     setApi(NewScrobbler(St), req[r].userToken)]
               /\ req' = [req EXCEPT ![r].at = "init"]
          ELSE Return(r)
    /\ UNCHANGED <<accounts, access, sharedToken, atomic, aside>>

\* init 143-150: api.user.getAuthorized() with the token of the object's api
AniListInit(r) ==
    LET x == ScrobblerOf(r)
    IN /\ req[r].at = "init"
       /\ access' = Access(r, "auth", scrobblers[x].api,
                           AuthorizedProfile(scrobblers[x].api), accounts)
       /\ \E ok \in BOOLEAN :
             IF ok
             THEN /\ scrobblers' = [scrobblers EXCEPT ![x] = init(scrobblers[x])]
                  /\ req' = [req EXCEPT ![r].at =
                                 IF req[r].kind = "forward" THEN "lists1" ELSE "lists"]
             ELSE Return(r)
       /\ UNCHANGED <<accounts, sharedToken, atomic, aside>>

\* the update scrobble prepares from a snapshot (loop 241-313), if any
PlannedUpdate(snapshot, l, episode) ==
    LET acc == ScanAndWrite("multi", snapshot, 1, 2, episode, l, Pad(<<>>),
                   [calls |-> <<>>, result |-> NoEntry, ret |-> NoResult, thrown |-> FALSE])
    IN IF acc.calls = <<>> THEN NoWrite ELSE acc.calls[1]

\* the update handleUnwatchedEpisode prepares from a snapshot (788-800), if any
PlannedReset(snapshot) ==
    LET entryId == FirstEntryAnyList(snapshot, 1, 2)
    IN IF entryId = NoId THEN NoWrite
       ELSE Call("update", entryId, unwatchedUpdatedEntry.progress,
                 unwatchedUpdatedEntry.status, "ok")

\* api.lists.anime(this.profileId) at 207, 241 and 788, up to the next await
ReadLists(r) ==
    LET x == ScrobblerOf(r)
        pid == scrobblers[x].profileId
        snapshot == Snapshot(accounts[pid], episodes)
        write == IF req[r].at = "lists" THEN PlannedReset(snapshot)
                 ELSE PlannedUpdate(snapshot, accounts[pid], req[r].episode)
    IN /\ req[r].at \in {"lists1", "lists2", "lists"}
       /\ IF pid = NoId THEN Return(r) /\ UNCHANGED access
          ELSE /\ access' = Access(r, "lists", scrobblers[x].api, pid, accounts)
               /\ \E ok \in BOOLEAN :
                     IF ~ok THEN Return(r)
                     ELSE IF req[r].at = "lists1"
                     THEN /\ req' = [req EXCEPT ![r].at =
                                        IF animeFound(snapshot, 2) THEN "lists2" ELSE "add"]
                          /\ UNCHANGED scrobblers
                     ELSE IF write = NoWrite THEN Return(r)
                     ELSE /\ req' = [req EXCEPT ![r].at = "update", ![r].write = write,
                                                ![r].owner = pid]
                          /\ UNCHANGED scrobblers
       /\ UNCHANGED <<accounts, sharedToken, atomic, aside>>

\* api.lists.addEntry(id, {status: "CURRENT", progress: episode}) at 227: the entry is
\* created on the list of the token's profile
AddEntry(r) ==
    LET x == ScrobblerOf(r)
        owner == AuthorizedProfile(scrobblers[x].api)
        after == [accounts EXCEPT ![owner] =
                     ApplyCall(accounts[owner], Call("add", 2, req[r].episode, "CURRENT", "ok"))]
    IN /\ req[r].at = "add"
       /\ \E ok \in BOOLEAN :
             IF ok
             THEN /\ accounts' = after
                  /\ access' = Access(r, "add", scrobblers[x].api, owner, after)
                  /\ req' = [req EXCEPT ![r].at = "lists2"]
                  /\ UNCHANGED scrobblers
             ELSE /\ UNCHANGED accounts
                  /\ access' = Access(r, "add", scrobblers[x].api, owner, accounts)
                  /\ Return(r)
       /\ UNCHANGED <<sharedToken, atomic, aside>>

\* api.lists.updateEntry(entry.id, ...) at 276, 306 and 796: AniList changes the entry
\* when the token is the one of the entry's owner and refuses the call otherwise
UpdateEntry(r) ==
    LET x == ScrobblerOf(r)
        owner == req[r].owner
        after == [accounts EXCEPT ![owner] = ApplyCall(accounts[owner], req[r].write)]
    IN /\ req[r].at = "update"
       /\ \E ok \in BOOLEAN :
             IF ok /\ AuthorizedProfile(scrobblers[x].api) = owner
             THEN /\ accounts' = after
                  /\ access' = Access(r, "update", scrobblers[x].api, owner, after)
             ELSE /\ UNCHANGED accounts
                  /\ access' = Access(r, "update", scrobblers[x].api, owner, accounts)
       /\ Return(r)
       /\ UNCHANGED <<sharedToken, atomic, aside>>

NextFlight ==
    \E r \in Reqs :
        \/ Receive(r)
        \/ CatalogLookup(r)
        \/ AniListInit(r)
        \/ ReadLists(r)
        \/ AddEntry(r)
        \/ UpdateEntry(r)

SpecFlight == InitFlight /\ [][NextFlight]_vars

----------------------------------------------------------------------------
(* The Jellyfin lookup on its own: any answer of GET /Items, any spelling of the name *)

InitLookup ==
    /\ lists = [s \in Shows |-> [status |-> "CURRENT", progress |-> 1]]
    /\ episodes = [s \in Shows |-> MaxEpisode]
    /\ autoAdd = FALSE
    /\ sharedToken = ConfigToken
    /\ profileId = TheProfile
    /\ pc = "listening"
    /\ last = [ev |-> NoEvent, pre |-> lists, out |-> Out(Escaped, NoResult, <<>>, "none")]
    /\ NoFlight
    /\ NoServer

\* api.getProviderFromSeries(payload.SeriesId, "anilist") with the answer res
GetProvider ==
    /\ \E res \in ItemsAnswers, providerName \in {"anilist", "AniList"} :
          lookup' = [res |-> res, providerName |-> providerName,
                     result |-> getProviderFromSeries(res, providerName)]
    /\ UNCHANGED <<sharedToken, atomic, flight, jellyfinApi, created, served, met, scanned,
                   backfill, judged, detect>>

SpecLookup == InitLookup /\ [][GetProvider]_vars

----------------------------------------------------------------------------
(* The loop of scrobble on its own: any order of the lists, any membership of the show *)

\* for (const list of await this.api.lists.anime(this.profileId)) { ... } (lines 99-152)
ScanSnapshot ==
    /\ \E snapshot \in ListCollections, episode \in EpisodeNumbers :
          scanned' = [snapshot |-> snapshot, episode |-> episode,
                      out |-> ScanLists(snapshot, 1, TheShow, episode, NoUpdate)]
    /\ UNCHANGED <<sharedToken, atomic, flight, jellyfinApi, created, served, met, lookup,
                   backfill, judged, detect>>

SpecScan == InitLookup /\ [][ScanSnapshot]_vars

----------------------------------------------------------------------------
(* The end of scrobble on its own: any entry returned by the write *)

\* result = await this.api.lists.updateEntry / addEntry, then lines 209-223
JudgeWrite ==
    /\ \E op \in {"update", "add"}, id \in Shows, entry \in ReturnedEntries,
          episode \in EpisodeNumbers :
          judged' = [op |-> op, id |-> id, entry |-> entry, episode |-> episode,
                     result |-> ResultOf(entry, episode)]
    /\ UNCHANGED <<sharedToken, atomic, flight, jellyfinApi, created, served, met, lookup,
                   scanned, backfill, detect>>

SpecResult == InitLookup /\ [][JudgeWrite]_vars

----------------------------------------------------------------------------
(* cmd/webhook/sync.ts: runBackfill, one action for each series of the library *)

InitBackfill ==
    /\ lists \in {l \in [Shows -> Entries] :
                    /\ l[1] = [status |-> "CURRENT", progress |-> 1]
                    /\ l[TheShow] \in {[status |-> "NONE", progress |-> 0],
                                       [status |-> "CURRENT", progress |-> 0],
                                       [status |-> "PLANNING", progress |-> 0]}}
    /\ episodes = [s \in Shows |-> MaxEpisode]
    /\ autoAdd = FALSE
    /\ sharedToken = ConfigToken
    /\ profileId = NoId
    /\ pc = "listening"
    /\ last = [ev |-> NoEvent, pre |-> lists, out |-> Out(Escaped, NoResult, <<>>, "none")]
    /\ NoFlight
    /\ NoServer

\* runBackfill to the loop over the series (lines 15-38): the URL, the views, the library,
\* scrobbler.init()
BackfillStart ==
    /\ backfill.at = "idle"
    /\ \E configured \in BOOLEAN, views \in {"ok", "enet"}, found \in BOOLEAN,
          auth \in {"ok", "e401"}, series \in {"ok", "enet"} :
          IF ~configured \/ views # "ok" \/ ~found
          THEN /\ backfill' = [NoBackfill EXCEPT !.at = "done", !.failed = configured /\ views # "ok"]
               /\ UNCHANGED profileId
          ELSE IF auth # "ok"
          THEN /\ backfill' = [NoBackfill EXCEPT !.at = "done", !.failed = TRUE]
               /\ UNCHANGED profileId
          ELSE /\ profileId' = TheProfile
               /\ backfill' = IF series = "ok" THEN [NoBackfill EXCEPT !.at = "series"]
                               ELSE [NoBackfill EXCEPT !.at = "done", !.failed = TRUE]
    /\ UNCHANGED <<lists, episodes, autoAdd, pc, last, sharedToken, flight,
                   jellyfinApi, created, lookup, served, met, scanned, judged,
                   detect>>

\* a turn of the loop over series.Items, to the played episodes (lines 39-51)
BackfillProvider ==
    /\ backfill.at = "series"
    /\ \E provider \in Providers, catalog \in {"ok", "enet"} :
          LET turn == [backfill EXCEPT !.ran = TRUE, !.provider = provider,
                                       !.watched = <<>>, !.scrobbles = <<>>]
          IN backfill' = IF catalog # "ok" THEN [turn EXCEPT !.at = "done", !.failed = TRUE]
                         ELSE IF provider = "" \/ InvalidId(anilistIdOf(provider)) THEN turn
                         ELSE [turn EXCEPT !.at = "played"]
    /\ UNCHANGED <<sharedToken, atomic, flight,
                   jellyfinApi, created, lookup, served, met, scanned, judged,
                   detect>>

\* the rest of the turn: the highest played episode of season 1 is scrobbled (lines 51-64)
BackfillPlayed ==
    /\ backfill.at = "played"
    /\ \E watched \in WatchedLists, played \in {"ok", "enet"},
          o \in {Pad(<<>>), Pad(<<"e500">>), Pad(<<"ok", "e500">>)} :
          LET anilistId == anilistIdOf(backfill.provider)
              m == maxEp(watched, 1, 0)
              run == scrobble_playbackstop(anilistId, m, 1, profileId, lists, episodes, o, <<>>)
          IN IF played # "ok"
             THEN /\ backfill' = [backfill EXCEPT !.at = "done", !.failed = TRUE]
                  /\ UNCHANGED lists
             ELSE IF m > 0
             THEN /\ backfill' = [backfill EXCEPT !.at = "series", !.watched = watched,
                         !.scrobbles = <<[id |-> anilistId, episode |-> m, season |-> 1]>>]
                  /\ lists' = Remote(lists, run.calls)
             ELSE /\ backfill' = [backfill EXCEPT !.at = "series", !.watched = watched]
                  /\ UNCHANGED lists
    /\ UNCHANGED <<episodes, autoAdd, profileId, pc, last, sharedToken, flight,
                   jellyfinApi, created, lookup, served, met, scanned, judged,
                   detect>>

\* the loop is over (line 66)
BackfillEnd ==
    /\ backfill.at = "series"
    /\ backfill' = [backfill EXCEPT !.at = "done"]
    /\ UNCHANGED <<sharedToken, atomic, flight,
                   jellyfinApi, created, lookup, served, met, scanned, judged,
                   detect>>

\* runBackfill has returned; it may be run again
BackfillReturn ==
    /\ backfill.at = "done"
    /\ backfill' = NoBackfill
    /\ profileId' = NoId
    /\ UNCHANGED <<lists, episodes, autoAdd, pc, last, sharedToken, flight,
                   jellyfinApi, created, lookup, served, met, scanned, judged,
                   detect>>

NextBackfill ==
    BackfillStart \/ BackfillProvider \/ BackfillPlayed \/ BackfillEnd \/ BackfillReturn

SpecBackfill == InitBackfill /\ [][NextBackfill]_vars

----------------------------------------------------------------------------
(* cmd/webhook.ts: the requests Bun.serve handles at once, one action for each stretch *)
(* of fetch and of the handlers of cmd/webhook (lib/scrobbler.ts) between two awaits    *)

InitShared ==
    /\ lists \in AccountLists
    /\ episodes = [s \in Shows |-> MaxEpisode]
    /\ autoAdd = TRUE
    /\ sharedToken = ConfigToken
    /\ profileId = TheProfile
    /\ pc = "listening"
    /\ last = [ev |-> NoEvent, pre |-> lists, out |-> Out(Escaped, NoResult, <<>>, "none")]
    /\ NoFlight
    /\ NoServer

\* the Response of a request
Answered(slot, status) == [slot EXCEPT !.at = "done", !.status = status, !.attempt = 0]

\* the early return of the handlers: the event is not one to scrobble
NotForScrobbling(ev) ==
    IF ev.handler = "webhookPlaybackStop" THEN NotScrobbled(ev)
    ELSE ev.saveReason # "TogglePlayed" \/ ~ev.played \/ ev.itemType # "Episode"

\* a sleep that holds the thread of the server until the next attempt
BackoffHolds_Sleep(slot) == slot.at = "backoff"

\* await new Promise((resolve) => setTimeout(resolve, ...)) (scrobbler.ts lines 171-173):
\* the timer suspends the request that awaits it and holds nothing else
BackoffHolds(slot) == FALSE

\* the event loop may run request r
Runs(r) == \A q \in Reqs \ {r} : ~BackoffHolds(served[q])

\* what request r did, seen from a request that is waiting for its next attempt
Noted(r) ==
    met' = [w \in Reqs |->
        IF served'[w].at # "backoff" THEN "none"
        ELSE IF w = r THEN "none"
        ELSE IF met[w] = "answered" THEN "answered"
        ELSE IF served[r].at = "idle"
             THEN IF served'[r].at = "done" THEN "answered" ELSE "received"
        ELSE IF met[w] = "received" /\ served'[r].at = "done" THEN "answered"
        ELSE met[w]]

\* fetch(req) to await req.json(), or to the 403 (lines 44-59, 120-128)
ServeFetch(r) ==
    /\ served[r].at = "idle"
    /\ Runs(r)
    /\ \E method \in Methods, agent \in Agents :
          LET slot == [served[r] EXCEPT !.method = method, !.agent = agent]
          IN served' = [served EXCEPT ![r] =
                 IF Accepted(method, agent) THEN [slot EXCEPT !.at = "json"]
                 ELSE Answered(slot, 403)]
    /\ UNCHANGED <<jellyfinApi, created, lookup, scanned, backfill, judged, detect,
                   sharedToken, atomic, flight>>
    /\ Noted(r)

\* from the payload to the handler's await api.getProviderFromSeries (lines 59-117)
ServePayload(r) ==
    /\ served[r].at = "json"
    /\ Runs(r)
    /\ \E type \in NotificationTypes, url \in Urls, episode \in EpisodeNumbers,
          scrobbled \in BOOLEAN :
          LET slot == [served[r] EXCEPT !.type = type,
                                        !.url = IF type \in NOTIFICATION_TYPES THEN url ELSE "-"]
              handler == IF type = "PlaybackStop" THEN "webhookPlaybackStop"
                         ELSE "webhookUserDataSaved"
              ev == Ev(handler, "Episode", scrobbled, "TogglePlayed", scrobbled, "", "",
                       episode, 1)
          IN IF type \notin NOTIFICATION_TYPES
             THEN /\ served' = [served EXCEPT ![r] = Answered(slot, 200)]
                  /\ UNCHANGED <<jellyfinApi, created>>
             ELSE /\ IF Cached(jellyfinApi, url)
                     THEN UNCHANGED <<jellyfinApi, created>>
                     ELSE /\ jellyfinApi' = [jellyfinApi EXCEPT ![url] = created + 1]
                          /\ created' = created + 1
                  /\ served' = [served EXCEPT ![r] =
                         IF NotForScrobbling(ev)
                         THEN Answered([slot EXCEPT !.handler = handler], 200)
                         ELSE [slot EXCEPT !.handler = handler, !.episode = episode,
                                           !.at = "catalog"]]
    /\ UNCHANGED <<lookup, scanned, backfill, judged, detect,
                   sharedToken, atomic, flight>>
    /\ Noted(r)

\* from Jellyfin's answer to await this.api.lists.anime (handler and scrobble lines 76-99)
ServeProvider(r) ==
    /\ served[r].at = "catalog"
    /\ Runs(r)
    /\ \E resp \in {"ok", "enet"}, provider \in {"2", "x"} :
          LET slot == [served[r] EXCEPT !.called = TRUE]
          IN served' = [served EXCEPT ![r] =
                 IF resp # "ok" THEN Answered(slot, Escaped)
                 ELSE IF InvalidId(anilistIdOf(provider)) THEN Answered(slot, 404)
                 ELSE IF profileId = NoId
                      THEN Answered(slot, StatusOf(Result(FALSE, "error", "not_initialized")))
                 ELSE [slot EXCEPT !.at = "lists"]]
    /\ UNCHANGED <<jellyfinApi, created, lookup, scanned, backfill, judged, detect,
                   sharedToken, atomic, flight>>
    /\ Noted(r)

\* from the lists to the first write, or to the Response (scrobble lines 99-178)
ServeLists(r) ==
    /\ served[r].at = "lists"
    /\ Runs(r)
    /\ \E resp \in {"ok", "e500"} :
          LET scan == ScanLists(Snapshot(lists, episodes), 1, TheShow, served[r].episode,
                                NoUpdate)
              slot == served[r]
          IN served' = [served EXCEPT ![r] =
                 IF resp # "ok" THEN Answered(slot, StatusOf(Result(FALSE, "error", "exception")))
                 ELSE IF scan.ret # NoResult THEN Answered(slot, StatusOf(scan.ret))
                 ELSE IF scan.update # NoUpdate
                      THEN [slot EXCEPT !.at = "update", !.update = scan.update, !.attempt = 1]
                 ELSE IF ~autoAdd
                      THEN Answered(slot, StatusOf(Result(FALSE, "warn", "not_tracked")))
                 ELSE IF slot.episode # 1
                      THEN Answered(slot, StatusOf(Result(FALSE, "warn", "add_not_first")))
                 ELSE [slot EXCEPT !.at = "media"]]
    /\ UNCHANGED <<jellyfinApi, created, lookup, scanned, backfill, judged, detect,
                   sharedToken, atomic, flight>>
    /\ Noted(r)

\* from the answer of this.api.media.anime to addEntry (lines 186-192)
ServeMedia(r) ==
    /\ served[r].at = "media"
    /\ Runs(r)
    /\ \E resp \in {"ok", "e500"} :
          served' = [served EXCEPT ![r] =
              IF resp # "ok"
              THEN Answered(served[r], StatusOf(Result(FALSE, "error", "add_failed")))
              ELSE [served[r] EXCEPT !.at = "add"]]
    /\ UNCHANGED <<jellyfinApi, created, lookup, scanned, backfill, judged, detect,
                   sharedToken, atomic, flight>>
    /\ Noted(r)

\* from the answer of addEntry to the Response (lines 192-230)
ServeAdd(r) ==
    /\ served[r].at = "add"
    /\ Runs(r)
    /\ \E resp \in {"ok", "e500"} :
          LET e == createUpdatedEntry(served[r].episode, episodes[TheShow])
              c == Call("add", TheShow, e.progress, e.status, resp)
              slot == [served[r] EXCEPT !.update = [id |-> EntryIdOf(TheShow), entry |-> e]]
          IN /\ lists' = ApplyCall(lists, c)
             /\ served' = [served EXCEPT ![r] =
                    IF resp # "ok"
                    THEN Answered(slot, StatusOf(Result(FALSE, "error", "add_failed")))
                    ELSE Answered(slot, StatusOf(ResultOf(UpdatedEntry(lists, c),
                                                          served[r].episode)))]
    /\ UNCHANGED <<jellyfinApi, created, lookup, scanned, backfill, judged, detect,
                   sharedToken, flight,
                   episodes, autoAdd, profileId, pc, last>>
    /\ Noted(r)

\* one attempt of the retry loop, from its answer to the next attempt or the Response
\* (lines 155-176, 209-230)
ServeUpdate(r) ==
    /\ served[r].at = "update"
    /\ Runs(r)
    /\ \E resp \in {"ok", "e500", "e401"} :
          LET u == served[r].update
              c == Call("update", u.id, u.entry.progress, u.entry.status, resp)
          IN /\ lists' = ApplyCall(lists, c)
             /\ served' = [served EXCEPT ![r] =
                    IF resp = "ok"
                    THEN Answered(served[r], StatusOf(ResultOf(UpdatedEntry(lists, c),
                                                               served[r].episode)))
                    ELSE IF GiveUp(resp, served[r].attempt)
                         THEN Answered(served[r],
                                       StatusOf(Result(FALSE, "error", "exception")))
                    ELSE [served[r] EXCEPT !.at = "backoff"]]
    /\ UNCHANGED <<jellyfinApi, created, lookup, scanned, backfill, judged, detect,
                   sharedToken, flight,
                   episodes, autoAdd, profileId, pc, last>>
    /\ Noted(r)

\* the timer of the backoff fires and the next attempt is made (lines 157-159, 171-173)
ServeBackoff(r) ==
    /\ served[r].at = "backoff"
    /\ Runs(r)
    /\ served' = [served EXCEPT ![r] = [served[r] EXCEPT !.at = "update", !.attempt = @ + 1]]
    /\ UNCHANGED <<jellyfinApi, created, lookup, scanned, backfill, judged, detect,
                   sharedToken, atomic, flight>>
    /\ Noted(r)

\* the Response is sent and the request is over
ServeAnswer(r) ==
    /\ served[r].at = "done"
    /\ Runs(r)
    /\ served' = [served EXCEPT ![r] = Waiting]
    /\ UNCHANGED <<jellyfinApi, created, lookup, scanned, backfill, judged, detect,
                   sharedToken, atomic, flight>>
    /\ Noted(r)

NextShared ==
    \E r \in Reqs :
        \/ ServeFetch(r)
        \/ ServePayload(r)
        \/ ServeProvider(r)
        \/ ServeLists(r)
        \/ ServeMedia(r)
        \/ ServeAdd(r)
        \/ ServeUpdate(r)
        \/ ServeBackoff(r)
        \/ ServeAnswer(r)

SpecShared == InitShared /\ [][NextShared]_vars

----------------------------------------------------------------------------
(* Termination: a request of cmd/webhook.ts or the play-state detection of part_004,    *)
(* step by step, every upstream call and every timer eventually answering               *)

\* let isEpisodeWatched = false; let retryCount = 0 (part_004 lines 599-601); played is
\* the play state Jellyfin holds
DetectStart ==
    /\ detect.at = "idle"
    /\ \E played \in BOOLEAN :
          detect' = [NoDetect EXCEPT !.at = "direct", !.played = played,
                                     !.asked.direct = 1]
    /\ UNCHANGED <<sharedToken, atomic, flight, jellyfinApi, created, served, met, lookup,
                   scanned, backfill, judged>>

\* the answer of getEpisodeInfo (lines 603-641): break, or retryCount++ and the backoff,
\* or the fallback
DetectDirect ==
    /\ detect.at = "direct"
    /\ \E resp \in {"ok", "enet"} :
          detect' =
              IF resp = "ok"
              THEN [detect EXCEPT !.at = "done", !.isEpisodeWatched = detect.played]
              ELSE IF detect.retryCount + 1 < maxRetries
              THEN [detect EXCEPT !.at = "wait", !.retryCount = @ + 1]
              ELSE [detect EXCEPT !.at = "users", !.retryCount = @ + 1, !.asked.users = @ + 1]
    /\ UNCHANGED <<sharedToken, atomic, flight, jellyfinApi, created, served, met, lookup,
                   scanned, backfill, judged>>

\* the timer of the backoff fires: while (retryCount < maxRetries) asks again (638-641)
DetectWait ==
    /\ detect.at = "wait"
    /\ detect' = IF detect.retryCount < maxRetries
                 THEN [detect EXCEPT !.at = "direct", !.asked.direct = @ + 1]
                 ELSE [detect EXCEPT !.at = "done"]
    /\ UNCHANGED <<sharedToken, atomic, flight, jellyfinApi, created, served, met, lookup,
                   scanned, backfill, judged>>

\* the answer of getUserByName (lines 651-655)
DetectUsers ==
    /\ detect.at = "users"
    /\ \E resp \in {"ok", "enet"} :
          detect' =
              IF resp = "ok" THEN [detect EXCEPT !.at = "series", !.asked.series = @ + 1]
              ELSE [detect EXCEPT !.at = "done", !.isEpisodeWatched = AssumedWatched]
    /\ UNCHANGED <<sharedToken, atomic, flight, jellyfinApi, created, served, met, lookup,
                   scanned, backfill, judged>>

\* the answer of getEpisodePlayStateFromSeries (lines 657-686); retryCount = maxRetries
\* ends the loop
DetectSeries ==
    /\ detect.at = "series"
    /\ \E resp \in {"ok", "enet"} :
          detect' =
              [detect EXCEPT !.at = IF detect.retryCount < maxRetries THEN "direct" ELSE "done",
                             !.isEpisodeWatched = IF resp = "ok" THEN detect.played
                                                  ELSE AssumedWatched]
    /\ UNCHANGED <<sharedToken, atomic, flight, jellyfinApi, created, served, met, lookup,
                   scanned, backfill, judged>>

\* the handler goes on with isEpisodeWatched (line 691)
DetectReturn ==
    /\ detect.at = "done"
    /\ detect' = NoDetect
    /\ UNCHANGED <<sharedToken, atomic, flight, jellyfinApi, created, served, met, lookup,
                   scanned, backfill, judged>>

\* the steps of the detection that follow an answer of Jellyfin or a timer
DetectStep == DetectDirect \/ DetectWait \/ DetectUsers \/ DetectSeries \/ DetectReturn

\* the steps of request r that follow an answer of an upstream or a timer
ServeStep(r) ==
    \/ ServePayload(r)
    \/ ServeProvider(r)
    \/ ServeLists(r)
    \/ ServeMedia(r)
    \/ ServeAdd(r)
    \/ ServeUpdate(r)
    \/ ServeBackoff(r)
    \/ ServeAnswer(r)

\* the server of cmd/webhook.ts and the handler of part_004 are two programs: neither
\* runs while the other is between two awaits
NextLive ==
    \/ detect.at = "idle" /\ ServeFetch(1)
    \/ ServeStep(1)
    \/ served[1].at \in {"idle", "done"} /\ DetectStart
    \/ DetectStep

\* every upstream call eventually returns or fails, every timer fires
SpecLive ==
    InitShared /\ [][NextLive]_vars /\ WF_vars(ServeStep(1)) /\ WF_vars(DetectStep)

----------------------------------------------------------------------------
(* What the last handled event did *)

LastCalls == last.out.calls

IsUpdate(c) == c.op = "update"
IsAdd(c) == c.op = "add"
IsWrite(c) == c.op \in {"update", "add"}
IsAniList(c) == c.op \in {"auth", "lists", "media", "update", "add"}

Updates == SelectSeq(LastCalls, IsUpdate)
Adds == SelectSeq(LastCalls, IsAdd)
Writes == SelectSeq(LastCalls, IsWrite)
AniListCalls == SelectSeq(LastCalls, IsAniList)

\* the show of the event, its entry before the event, its episode count
LastId == anilistIdOf(last.ev.provider)
PreEntry == IF LastId \in Shows THEN last.pre[LastId] ELSE NoEntry
LastMax == IF LastId \in Shows THEN episodes[LastId] ELSE NoEpisodes

\* the list snapshot was fetched / the fetch failed
ListsRead == \E i \in 1..Len(LastCalls) : LastCalls[i].op = "lists" /\ LastCalls[i].resp = "ok"
ListsFailed == \E i \in 1..Len(LastCalls) : LastCalls[i].op = "lists" /\ LastCalls[i].resp # "ok"

LibHandlers == {"webhookPlaybackStop", "webhookUserDataSaved"}
UserDataSavedHandlers == {"webhookUserDataSaved", "webhookUserDataSaved_multi"}

\* scrobble of src/lib/scrobbler.ts ran for the event / and read the snapshot
LibForward == last.ev.handler \in LibHandlers /\ last.out.path = "forward"
LibSnapshot == LibForward /\ ListsRead

NoOpWarn == ~last.out.result.success /\ last.out.result.level = "warn"

\* every update of the event is for the entry of the show, with this progress and status
UpdatesCarry(progress, status) ==
    \A i \in 1..Len(Updates) :
        /\ Updates[i].target = EntryIdOf(LastId)
        /\ Updates[i].progress = progress
        /\ Updates[i].status = status

\* an update is sent again only after the answer HTTP 500, maxAttempts times at most
OnlyRetried ==
    /\ Len(Updates) \in 1..maxAttempts
    /\ \A i \in 1..(Len(Updates) - 1) : Updates[i].resp = "e500"

----------------------------------------------------------------------------
(* Claims *)

\* C1: forward path of scrobbler.ts: when the snapshot's Watching list holds the
\* entry of the show with progress p and the episode of the event is <= p, the
\* result is a warn-level non-success and no update or add call is issued, for
\* every p, episode and autoAdd setting; the list is left as it was.
C1_NoUpdateAtOrBehindProgress ==
    (LibSnapshot /\ PreEntry.status = "CURRENT" /\ last.ev.episode <= PreEntry.progress)
        => (NoOpWarn /\ Writes = <<>> /\ lists = last.pre)

C1_Witness ==
    /\ LibSnapshot /\ PreEntry.status = "CURRENT"
    /\ last.ev.episode = PreEntry.progress
    /\ autoAdd /\ LastMax = MaxEpisode
    /\ last.out.result = Result(FALSE, "warn", "behind")

\* C2: for every season other than 1, scrobble of scrobbler.ts returns the
\* unsupported-season warn result whatever the episode, the list and autoAdd are,
\* and calls AniList neither to read nor to write.
C2_UnsupportedSeasonNoOp ==
    (LibForward /\ last.ev.season # 1)
        => /\ last.out.result = Result(FALSE, "warn", "season")
           /\ AniListCalls = <<>>
           /\ lists = last.pre

C2_Witness ==
    /\ LibForward /\ last.ev.season = MaxSeason
    /\ PreEntry.status = "CURRENT" /\ PreEntry.progress < last.ev.episode
    /\ last.ev.episode <= LastMax
    /\ last.out.result = Result(FALSE, "warn", "season")

\* C3 as stated: Watching entry with progress < episode: the event is rejected
\* only when the episode count is known and < episode; when it is unknown an
\* update with progress = episode and status CURRENT is issued.
C3_RejectsOnlyKnownMax ==
    (LibSnapshot /\ PreEntry.status = "CURRENT" /\ PreEntry.progress < last.ev.episode)
        => IF LastMax # NoEpisodes /\ LastMax < last.ev.episode
           THEN NoOpWarn /\ Writes = <<>>
           ELSE /\ Updates # <<>>
                /\ UpdatesCarry(last.ev.episode,
                                IF last.ev.episode = LastMax THEN "COMPLETED" ELSE "CURRENT")

\* C3 amended: Watching entry with progress < episode: the event is rejected
\* (warn, no write) when the episode count is unknown or < episode; otherwise an
\* update with progress = episode is issued.
C3_RejectsUnknownOrSmallerMax ==
    (LibSnapshot /\ PreEntry.status = "CURRENT" /\ PreEntry.progress < last.ev.episode)
        => IF LastMax = NoEpisodes \/ LastMax < last.ev.episode
           THEN /\ last.out.result = Result(FALSE, "warn", "exceeds_max")
                /\ Writes = <<>>
                /\ lists = last.pre
           ELSE /\ Updates # <<>>
                /\ UpdatesCarry(last.ev.episode,
                                IF last.ev.episode = LastMax THEN "COMPLETED" ELSE "CURRENT")

C3_Witness ==
    /\ LibSnapshot /\ PreEntry.status = "CURRENT" /\ PreEntry.progress < last.ev.episode
    /\ LastMax = NoEpisodes
    /\ last.out.result = Result(FALSE, "warn", "exceeds_max")

\* C4 as stated: Watching entry with progress < episode <= known episode count:
\* exactly one update call is issued, for that entry, with progress = episode and
\* status COMPLETED when episode = episode count and CURRENT otherwise; no add call.
C4_ExactlyOneUpdateCall ==
    (/\ LibSnapshot /\ PreEntry.status = "CURRENT" /\ PreEntry.progress < last.ev.episode
     /\ LastMax # NoEpisodes /\ last.ev.episode <= LastMax)
        => /\ Len(Updates) = 1
           /\ Adds = <<>>
           /\ UpdatesCarry(last.ev.episode,
                           IF last.ev.episode = LastMax THEN "COMPLETED" ELSE "CURRENT")

\* C4 amended: Watching entry with progress < episode <= known episode count: one
\* update is issued, and issued again unchanged only after the answer HTTP 500, 3
\* times at most; every one of these calls is for that entry and carries progress =
\* episode with status COMPLETED when episode = episode count and CURRENT
\* otherwise; completion is never a call of its own, and no add call is issued.
C4_OneUpdateResentOn500 ==
    (/\ LibSnapshot /\ PreEntry.status = "CURRENT" /\ PreEntry.progress < last.ev.episode
     /\ LastMax # NoEpisodes /\ last.ev.episode <= LastMax)
        => /\ OnlyRetried
           /\ Adds = <<>>
           /\ UpdatesCarry(last.ev.episode,
                           IF last.ev.episode = LastMax THEN "COMPLETED" ELSE "CURRENT")

C4_Witness ==
    /\ LibSnapshot /\ PreEntry.status = "CURRENT" /\ PreEntry.progress < last.ev.episode
    /\ last.ev.episode = LastMax
    /\ Len(Updates) = 2 /\ Updates[2].resp = "ok"
    /\ lists[LastId] = [status |-> "COMPLETED", progress |-> last.ev.episode]
    /\ last.out.result = Result(TRUE, "info", "completed")

\* C5 as stated: the entry of the show is in Planning: episode 1 produces one
\* update call with progress 1 and status COMPLETED when the episode count is 1,
\* CURRENT otherwise; every other episode is a no-op without a write.
C5_PlanningExactlyOneUpdateCall ==
    (LibSnapshot /\ PreEntry.status = "PLANNING")
        => IF last.ev.episode = 1
           THEN /\ Len(Updates) = 1
                /\ Adds = <<>>
                /\ UpdatesCarry(1, IF LastMax = 1 THEN "COMPLETED" ELSE "CURRENT")
           ELSE NoOpWarn /\ Writes = <<>>

\* C5 amended: the entry of the show is in Planning: only episode 1 produces a
\* write, one update with progress 1 and status COMPLETED when the episode count
\* is 1, CURRENT otherwise, issued again unchanged only after the answer HTTP 500,
\* 3 times at most; every other episode is a warn no-op without a write.
C5_PlanningOneUpdateResentOn500 ==
    (LibSnapshot /\ PreEntry.status = "PLANNING")
        => IF last.ev.episode = 1
           THEN /\ OnlyRetried
                /\ Adds = <<>>
                /\ UpdatesCarry(1, IF LastMax = 1 THEN "COMPLETED" ELSE "CURRENT")
           ELSE /\ last.out.result = Result(FALSE, "warn", "planning_not_first")
                /\ Writes = <<>>
                /\ lists = last.pre

C5_Witness ==
    /\ LibSnapshot /\ PreEntry.status = "PLANNING"
    /\ last.ev.episode = 1 /\ LastMax = 1
    /\ Len(Updates) = 1 /\ Updates[1].resp = "ok"
    /\ lists[LastId] = [status |-> "COMPLETED", progress |-> 1]

\* C6 as stated: with autoAdd off no add call is ever issued, by scrobbler.ts and
\* by the multi-user class, for any event and any list; a show that is on neither
\* Watching nor Planning then yields the not-tracked warn result.
C6_NoAddWhenAutoAddOff ==
    (last.ev.handler \in LibHandlers \cup {"webhookPlaybackStop_multi",
                                           "webhookUserDataSaved_multi"}
     /\ ~autoAdd)
        => /\ Adds = <<>>
           /\ (last.out.path = "forward" /\ ListsRead /\ ~ListsFailed
               /\ PreEntry.status \notin {"CURRENT", "PLANNING"}
                  => last.out.result = Result(FALSE, "warn", "not_tracked"))

\* C7 as stated: an add call is only ever issued for an event with episode 1; with
\* autoAdd on and the show on neither Watching nor Planning, an event with another
\* episode is a warn no-op without an add call.
C7_AddOnlyOnFirstEpisode ==
    /\ (Adds # <<>> => last.ev.episode = 1)
    /\ (last.out.path = "forward" /\ ListsRead /\ ~ListsFailed /\ autoAdd
        /\ PreEntry.status \notin {"CURRENT", "PLANNING"} /\ last.ev.episode # 1
           => NoOpWarn /\ Adds = <<>>)

\* C8 as stated: an add call of scrobbler.ts or of the autoAdd class carries
\* progress 1 and status CURRENT, or status COMPLETED when the episode count of
\* the show, fetched before the add call, is 1.
C8_AddCarriesFirstEpisode ==
    (last.ev.handler \in LibHandlers \cup {"webhookPlaybackStop_autoadd"})
        => \A i \in 1..Len(LastCalls) :
              LastCalls[i].op = "add"
                 => /\ LastCalls[i].progress = 1
                    /\ LastCalls[i].status = IF LastMax = 1 THEN "COMPLETED" ELSE "CURRENT"
                    /\ \E j \in 1..(i - 1) :
                          LastCalls[j].op = "media" /\ LastCalls[j].resp = "ok"

\* C9 as stated: for a UserDataSaved event about an Episode, handleUnwatchedEpisode
\* runs only when SaveReason is TogglePlayed and Played is false, scrobble only
\* when Played is true, and an event with another SaveReason causes no write.
C9_PathsFollowSaveReasonAndPlayed ==
    (last.ev.handler \in UserDataSavedHandlers /\ last.ev.itemType = "Episode")
        => /\ (last.out.path = "correction"
                  => last.ev.saveReason = "TogglePlayed" /\ ~last.ev.played)
           /\ (last.out.path = "forward" => last.ev.played)
           /\ (last.ev.saveReason # "TogglePlayed" => Writes = <<>> /\ lists = last.pre)

\* C10 as stated: handleUnwatchedEpisode, the lists fetch not having failed: when
\* the show has an entry in any list, exactly one update is issued, for that entry,
\* with progress 0 and no status, and the entry stays in its list; when the show
\* has no entry, the result is a non-success and no write is issued.
C10_ResetWheneverEntryExists ==
    (last.out.path = "correction" /\ ~ListsFailed)
        => IF PreEntry.status # "NONE"
           THEN /\ Len(Updates) = 1
                /\ Adds = <<>>
                /\ UpdatesCarry(0, NoStatus)
                /\ lists[LastId].status = PreEntry.status
           ELSE ~last.out.result.success /\ Writes = <<>>

\* C10 amended: handleUnwatchedEpisode for an event of season 1, the lists fetch
\* not having failed: when the show has an entry in any list, exactly one update
\* is issued, for that entry, with progress 0 and no status, and the entry stays
\* in its list; when the show has no entry, the result is the not-found warn and
\* no write is issued.  For an event of another season the result is the
\* unsupported-season warn, without a lists fetch and without a write.
C10_ResetOnSeasonOne ==
    (last.out.path = "correction" /\ ~ListsFailed)
        => IF last.ev.season # 1
           THEN /\ last.out.result = Result(FALSE, "warn", "season")
                /\ ~ListsRead /\ Writes = <<>> /\ lists = last.pre
           ELSE IF PreEntry.status # "NONE"
           THEN /\ Len(Updates) = 1
                /\ Adds = <<>>
                /\ UpdatesCarry(0, NoStatus)
                /\ lists[LastId].status = PreEntry.status
                /\ (Updates[1].resp = "ok"
                       => /\ lists[LastId].progress = 0
                          /\ last.out.result = Result(TRUE, "info", "reset"))
           ELSE /\ last.out.result = Result(FALSE, "warn", "not_found")
                /\ Writes = <<>> /\ lists = last.pre

C10_Witness ==
    /\ last.out.path = "correction" /\ last.ev.season = 1
    /\ PreEntry = [status |-> "COMPLETED", progress |-> MaxEpisode]
    /\ Len(Updates) = 1
    /\ lists[LastId] = [status |-> "COMPLETED", progress |-> 0]
    /\ last.out.result = Result(TRUE, "info", "reset")

\* every call of the event was answered without failure
AllAnswered == \A i \in 1..Len(LastCalls) : LastCalls[i].resp = "ok"

\* the same event handled once more, the upstream answering every call
Again == Run(last.ev, St, Pad(<<>>))

\* C11: once handleUnwatchedEpisode has run for an event, the upstream answering
\* every call, running it again for the same event leaves the list as the first
\* run left it (progress 0 and the status as before for an entry that exists)
\* and returns the same result with the same response.
C11_CorrectionIdempotent ==
    (last.out.path = "correction" /\ AllAnswered)
        => /\ Again.path = "correction"
           /\ Remote(lists, Again.calls) = lists
           /\ Again.result = last.out.result
           /\ Again.status = last.out.status
           /\ (PreEntry.status # "NONE" /\ last.ev.season = 1
                  => lists[LastId] = [status |-> PreEntry.status, progress |-> 0])

C11_Witness ==
    /\ last.out.path = "correction" /\ AllAnswered
    /\ PreEntry = [status |-> "CURRENT", progress |-> MaxEpisode]
    /\ lists[LastId] = [status |-> "CURRENT", progress |-> 0]
    /\ Len(SelectSeq(Again.calls, IsUpdate)) = 1
    /\ Again.result = Result(TRUE, "info", "reset")

\* the error classes of a failed write: a server-side error (5xx), another error
ServerError == {"e500", "e503"}
OtherError == {"e401", "enet"}

\* the write after Writes[i] is the same write, attempted again
Retried(i) ==
    /\ i < Len(Writes)
    /\ Writes[i + 1] = [Writes[i] EXCEPT !.resp = Writes[i + 1].resp]

C13_OtherErrorNotRetried ==
    \A i \in 1..Len(LastCalls) :
        (IsWrite(LastCalls[i]) /\ LastCalls[i].resp \in OtherError)
            => /\ i = Len(LastCalls)
               /\ (Writes[1].resp \in OtherError => Len(Writes) = 1)
               /\ ~last.out.result.success
               /\ last.out.result.level = "error"
               /\ last.out.status = 500
               /\ lists = last.pre

C13_Witness ==
    /\ LibSnapshot /\ Len(Updates) = 1 /\ Updates[1].resp = "e401"
    /\ last.out.result = Result(FALSE, "error", "exception")

C15_EveryWriteRetried ==
    (LibForward \/ last.out.path = "correction")
        => \A i \in 1..Len(Writes) :
              (Writes[i].resp = "e500" /\ i < maxAttempts) => Retried(i)

\* C16 as stated: every handled event ends with a success or a handled failure:
\* every request is answered with a response and no exception leaves the handler.
C16_NothingEscapes ==
    last.ev.handler # "none"
        => last.out.status \in {200, 400, 404, 500} /\ last.out.result # Thrown

PlaybackStopHandlers ==
    {"webhookPlaybackStop", "webhookPlaybackStop_autoadd", "webhookPlaybackStop_multi"}

C20_NoUsernameRejected ==
    (last.ev.handler # "none" /\ last.ev.username = "")
        => last.out.status = 400 /\ LastCalls = <<>> /\ lists = last.pre

MultiHandlers == {"webhookPlaybackStop_multi", "webhookUserDataSaved_multi"}

\* the event passed the checks that precede the credential lookup of its handler
ReachedTokenLookup ==
    /\ last.ev.handler \in MultiHandlers
    /\ last.ev.itemType = "Episode"
    /\ (last.ev.handler = "webhookPlaybackStop_multi" => last.ev.ptc)
    /\ last.ev.username # ""

\* C17: the token resolved for a username is the per-user token when the username is in the
\* per-user table, otherwise the shared token, and is Missing ("") only if the username is
\* not in the table and no shared token is configured; an event whose token is Missing is
\* answered 400 without any upstream call, and an event whose token is resolved goes on to
\* the catalog lookup.
C17_CredentialRouting ==
    /\ \A u \in Usernames \ {""} :
          /\ getUserAniListToken(St, u)
                = (IF u \in DOMAIN ConfigUsers THEN ConfigUsers[u] ELSE sharedToken)
          /\ (getUserAniListToken(St, u) = ""
                <=> u \notin DOMAIN ConfigUsers /\ sharedToken = "")
    /\ (ReachedTokenLookup /\ last.ev.username \notin DOMAIN ConfigUsers /\ sharedToken = ""
          => last.out.status = 400 /\ LastCalls = <<>> /\ lists = last.pre)
    /\ (ReachedTokenLookup /\ (last.ev.username \in DOMAIN ConfigUsers \/ sharedToken # "")
          => LastCalls # <<>> /\ LastCalls[1].op = "catalog")

\* without a shared token an event for a user outside the table is rejected while the
\* show is on the Planning list, and the table user's token is still resolved
C17_Witness ==
    /\ ReachedTokenLookup
    /\ last.ev.username = "bob"
    /\ sharedToken = ""
    /\ getUserAniListToken(St, "bob") = ""
    /\ getUserAniListToken(St, "alice") = "alice-token"
    /\ last.pre[2] = [status |-> "PLANNING", progress |-> 0]
    /\ last.out.status = 400
    /\ LastCalls = <<>>

\* C18 (SpecFlight): every AniList call made while handling an event for username u (the
\* authentication, a list read, an add, an update) carries the token resolved for u and is
\* about the profile that token authenticates as, and it changes no list but that
\* profile's, whatever the other request in flight is doing.
C18_PerUserIsolation ==
    access.op # "none"
        => LET token == getUserAniListToken(St, access.user)
           IN /\ access.token = token
              /\ access.profile = AuthorizedProfile(token)
              /\ access.touched \subseteq {AuthorizedProfile(token)}

\* alice's update changed her list while a request of bob, who uses the shared token, is
\* between its list read and its write
C18_Witness ==
    /\ access.user = "alice"
    /\ access.op = "update"
    /\ access.token = "alice-token"
    /\ access.touched = {AliceProfile}
    /\ \E r \in Reqs : req[r].user = "bob" /\ req[r].at = "update"
                         /\ req[r].owner = TheProfile
    /\ accounts[AliceProfile] # accounts[TheProfile]

\* a ScrobbleResult was returned to the handler of the last event
HasResult == last.ev.handler # "none" /\ last.out.result \notin {NoResult, Thrown}

\* C21: a ScrobbleResult with success = true is answered 200, a non-success result of level
\* error is answered 500, every other non-success result is answered 400, and no other
\* status is produced from a ScrobbleResult.
C21_ResultToResponse ==
    HasResult
        => /\ last.out.status \in {200, 400, 500}
           /\ (last.out.result.success => last.out.status = 200)
           /\ (~last.out.result.success /\ last.out.result.level = "error"
                  => last.out.status = 500)
           /\ (~last.out.result.success /\ last.out.result.level # "error"
                  => last.out.status = 400)

\* a list read that failed in scrobble of scrobbler.ts gives an error result, answered 500
C21_Witness ==
    /\ HasResult
    /\ last.ev.handler \in LibHandlers
    /\ last.out.result = Result(FALSE, "error", "exception")
    /\ last.out.status = 500
    /\ Len(LastCalls) = 2
    /\ LastCalls[2].op = "lists"
    /\ LastCalls[2].resp # "ok"

\* the Jellyfin lookup of the last event answered, and the id it gave is missing, zero or
\* not a number
Unresolved ==
    /\ last.ev.handler # "none"
    /\ LastCalls # <<>>
    /\ LastCalls[1].op = "catalog"
    /\ LastCalls[1].resp = "ok"
    /\ last.ev.provider \in {"", "x", "0"}

\* C26 as stated: an event whose catalog id cannot be resolved is reported at warn severity
\* as a non-server-fault response, is not retried, and no list is read or written for it.
C26_UnresolvedIsWarn ==
    Unresolved
        => /\ LoggedLevel(last.out) = "warn"
           /\ last.out.status \in {400, 404}
           /\ Len(LastCalls) = 1
           /\ lists = last.pre

\* C26: an event whose catalog id cannot be resolved is logged at error severity and
\* answered 404 (a client fault, not a server fault); the lookup is made once, no
\* ScrobbleResult is produced, and no list is read or written for it.
C26_UnresolvedIsTerminal ==
    Unresolved
        => /\ LoggedLevel(last.out) = "error"
           /\ last.out.status = 404
           /\ last.out.result = NoResult
           /\ Len(LastCalls) = 1
           /\ lists = last.pre

\* a PlaybackStop played to completion whose series has a provider id that is not a number,
\* while the show is on the Planning list
C26_Witness ==
    /\ Unresolved
    /\ last.ev.handler = "webhookPlaybackStop"
    /\ last.ev.provider = "x"
    /\ last.ev.ptc
    /\ last.pre[2] = [status |-> "PLANNING", progress |-> 0]
    /\ last.out.status = 404
    /\ Len(LastCalls) = 1

\* the play-state queries of the last event: the direct ones and those of the fallback
IsDirect(c) == c.op = "episodeInfo"
IsFallback(c) == c.op \in {"users", "seriesEpisodes"}
Direct == SelectSeq(LastCalls, IsDirect)
Fallback == SelectSeq(LastCalls, IsFallback)

\* the play state could not be determined: the direct queries and the fallback failed
Undetermined == Fallback # <<>> /\ LastOf(Fallback).resp # "ok"

\* C30: in the multi-user UserDataSaved handler the direct episode query is made at most 3
\* times and again only after a failure, the series-level fallback is used only after the
\* third direct failure, and when the fallback fails as well the episode is taken for
\* watched: the reset path is never taken when the play state could not be determined.
C30_PlayStateDetection ==
    last.ev.handler = "webhookUserDataSaved_multi"
        => /\ Len(Direct) <= maxRetries
           /\ \A i \in 1..Len(Direct) : i < Len(Direct) => Direct[i].resp # "ok"
           /\ (Fallback # <<>>
                  => /\ Len(Direct) = maxRetries
                     /\ \A i \in 1..Len(Direct) : Direct[i].resp # "ok")
           /\ (Undetermined => last.out.path # "correction")

\* an unwatched episode of season 1 whose three direct queries and whose fallback failed
\* is scrobbled forward: the Watching entry moves to the episode instead of being reset
C30_Witness ==
    /\ last.ev.handler = "webhookUserDataSaved_multi"
    /\ ~last.ev.played
    /\ Len(Direct) = maxRetries
    /\ Undetermined
    /\ last.out.path = "forward"
    /\ last.pre[2] = [status |-> "CURRENT", progress |-> 0]
    /\ lists[2].progress = last.ev.episode

\* the reads of an event: the catalog lookup, the snapshot fetch, the play-state lookups
IsRead(c) == c.op \in {"catalog", "lists", "episodeInfo", "users", "seriesEpisodes"}

\* C27 as stated: a failed read (catalog lookup, snapshot fetch, play-state lookup) is
\* surfaced at once as an error outcome and no read is retried: the failed read is the last
\* call of the event and the event ends with an error result.
C27_ReadFailureIsFinal ==
    \A i \in 1..Len(LastCalls) :
        IsRead(LastCalls[i]) /\ LastCalls[i].resp # "ok"
            => /\ i = Len(LastCalls)
               /\ last.out.result.level = "error"
               /\ last.out.status = 500

\* the writes of the last event that the upstream applied
IsApplied(c) == IsWrite(c) /\ c.resp = "ok"
Applied == SelectSeq(LastCalls, IsApplied)

\* C28 as stated: an event whose outcome is a no-op (a warn-level, non-success result) has
\* issued no write call at all, and an event that succeeded has exactly one applied write
\* (one update or one create), never two.
C28_WritesPerEvent ==
    HasResult
        => /\ (~last.out.result.success /\ last.out.result.level = "warn" => Writes = <<>>)
           /\ (last.out.result.success => Len(Applied) = 1)
           /\ Len(Applied) <= 1

\* the snapshot fetches of the last event
IsFetch(c) == c.op = "lists"
Fetches == SelectSeq(LastCalls, IsFetch)

\* C29 as stated: a forward reconciliation fetches the list snapshot exactly once, and
\* every write of the event comes after that one fetch.
C29_OneSnapshotPerEvent ==
    (last.out.path = "forward" /\ Fetches # <<>>)
        => /\ Len(Fetches) = 1
           /\ \A i \in 1..Len(LastCalls) :
                 IsWrite(LastCalls[i]) => \E j \in 1..(i - 1) : IsFetch(LastCalls[j])

\* the provider names that are equal when the case is ignored
SameName(a, b) ==
    \E class \in {{"AniList", "anilist"}, {"Tvdb", "tvdb"}} : a \in class /\ b \in class

\* the keys of the first record of the last lookup that match the name asked for
Matching ==
    IF lookup.res.TotalRecordCount = 0 THEN {}
    ELSE {i \in 1..Len(lookup.res.Items[1].ProviderIds) :
             SameName(lookup.res.Items[1].ProviderIds[i].key, lookup.providerName)}

\* C25 (SpecLookup): when exactly one record is returned and a provider key equals the
\* name asked for ignoring case, the lookup returns the id under that key (the first such
\* key when several match); when zero or more than one record is returned, or no key
\* matches, it returns NotFound.
C25_CatalogResolution ==
    lookup # NoLookup
        => IF lookup.res.TotalRecordCount = 1 /\ Matching # {}
           THEN \E i \in Matching :
                    /\ \A j \in Matching : i <= j
                    /\ lookup.result = lookup.res.Items[1].ProviderIds[i].value
           ELSE lookup.result = NotFound

\* one record whose keys are Tvdb and AniList, asked for "anilist": the id under AniList
C25_Witness ==
    /\ lookup.res.TotalRecordCount = 1
    /\ lookup.providerName = "anilist"
    /\ Len(lookup.res.Items[1].ProviderIds) = 2
    /\ lookup.res.Items[1].ProviderIds[1] = [key |-> "Tvdb", value |-> "x"]
    /\ lookup.res.Items[1].ProviderIds[2] = [key |-> "AniList", value |-> "2"]
    /\ lookup.result = "2"

\* a POST whose user agent starts with Jellyfin-Server/
FromJellyfin(slot) ==
    slot.method = "POST" /\ slot.agent # <<>> /\ slot.agent[1] = "Jellyfin-Server/"

\* a notification of one of the two kinds that are handled
KnownKind(slot) == slot.type \in {"PlaybackStop", "UserDataSaved"}

\* a request that is not a POST of a Jellyfin server about one of the two kinds
Turned(slot) == slot.at # "idle" /\ ~(FromJellyfin(slot) /\ KnownKind(slot))

\* C24 (SpecShared): a request that is not a POST from a Jellyfin-Server user agent is
\* answered 403, and one whose notification kind is neither PlaybackStop nor UserDataSaved
\* is answered 200 as ignored; such a request reaches no handler and makes no call to
\* Jellyfin or AniList, and the step that turns it away leaves the client cache, the
\* number of clients created and the AniList list as they were.
C24_RejectedUpstream ==
    /\ [](\A r \in Reqs :
            Turned(served[r])
                => /\ served[r].handler = "none"
                   /\ ~served[r].called
                   /\ served[r].at \in {"json", "done"}
                   /\ served[r].at = "done"
                        => served[r].status = IF FromJellyfin(served[r]) THEN 200 ELSE 403)
    /\ [][\A r \in Reqs :
            (served'[r] # served[r] /\ Turned(served'[r]))
                => UNCHANGED <<jellyfinApi, created, lists>>]_vars

\* a GET of a Jellyfin server answered 403 while an ItemAdded notification is answered
\* 200, and no client exists
C24_Witness ==
    /\ served[1].at = "done" /\ served[1].status = 403
    /\ served[1].method = "GET" /\ served[1].agent = <<"Jellyfin-Server/", "10.9.0">>
    /\ served[2].at = "done" /\ served[2].status = 200 /\ served[2].type = "ItemAdded"
    /\ created = 0

\* C23 (SpecShared): under every interleaving of the requests, the number of clients
\* created equals the number of server URLs that have one (at most one per URL); a client
\* appears only in the step that dispatches a PlaybackStop or UserDataSaved event from a
\* URL that had none, so every event being handled has the client of its URL; and a
\* cached client is never removed or replaced.
C23_ClientCache ==
    /\ [](/\ created = Cardinality({u \in Urls : jellyfinApi[u] # NoClient})
          /\ \A r \in Reqs :
                served[r].handler # "none" => jellyfinApi[served[r].url] # NoClient)
    /\ [][\A u \in Urls :
            /\ jellyfinApi[u] # NoClient => jellyfinApi'[u] = jellyfinApi[u]
            /\ jellyfinApi'[u] # jellyfinApi[u]
                 => \E r \in Reqs : /\ served[r].at = "json"
                                     /\ served'[r].url = u
                                     /\ KnownKind(served'[r])]_vars

\* two events of the same server in flight at once and one client for that server, none
\* for the other
C23_Witness ==
    /\ served[1].at = "lists" /\ served[2].at = "lists"
    /\ served[1].url = served[2].url
    /\ jellyfinApi[served[1].url] = 1
    /\ created = 1

NextStep(q) ==
    /\ served[q].at = "idle" => ENABLED ServeFetch(q)
    /\ served[q].at = "json" => ENABLED ServePayload(q)
    /\ served[q].at = "catalog" => ENABLED ServeProvider(q)
    /\ served[q].at = "lists" => ENABLED ServeLists(q)
    /\ served[q].at = "media" => ENABLED ServeMedia(q)
    /\ served[q].at = "add" => ENABLED ServeAdd(q)
    /\ served[q].at = "update" => ENABLED ServeUpdate(q)
    /\ served[q].at = "backoff" => ENABLED ServeBackoff(q)
    /\ served[q].at = "done" => ENABLED ServeAnswer(q)

\* C31 (SpecShared): while a request waits between two attempts of its write, the other
\* request can take its next step wherever it is: it can be received, run through its
\* handler and be answered; the wait holds back the waiting request only.
C31_BackoffSuspendsOnlyItself ==
    \A r \in Reqs : served[r].at = "backoff" => \A q \in Reqs \ {r} : NextStep(q)

\* request 1 still waits after its first failed attempt, and since it began to wait
\* request 2 was received, wrote its update and was answered 200
C31_Witness ==
    /\ served[1].at = "backoff" /\ served[1].attempt = 1
    /\ met[1] = "answered"
    /\ served[2].at = "done" /\ served[2].status = 200
    /\ served[2].handler # "none" /\ served[2].update # NoUpdate

\* C32 as stated: a create-entry call is issued only for a show that had no entry in any
\* of the user's lists before the event; a show with an entry in a list other than
\* Watching or Planning (Completed here) never causes a create-entry call.
C32_AddOnlyWhenAbsent ==
    Adds # <<>> => PreEntry = NoEntry

\* the entry of the show on the list of a given name of the last snapshot (<<>>: none)
OnList(name) ==
    LET ls == {i \in 1..Len(scanned.snapshot) : scanned.snapshot[i].name = name}
        es == {<<i, j>> \in ls \X (1..2) :
                  /\ j <= Len(scanned.snapshot[i].entries)
                  /\ scanned.snapshot[i].entries[j].media.id = TheShow}
    IN IF es = {} THEN <<>>
       ELSE LET e == CHOOSE x \in es : TRUE IN <<scanned.snapshot[e[1]].entries[e[2]]>>

\* the decision by priority: the Watching entry if there is one, else the Planning entry
ByPriority ==
    LET w == OnList("Watching")
        pl == OnList("Planning")
    IN IF w # <<>> THEN
           IF w[1].progress >= scanned.episode
              \/ w[1].media.episodes = NoEpisodes \/ w[1].media.episodes < scanned.episode
           THEN "noop"
           ELSE "update"
       ELSE IF pl # <<>> THEN IF scanned.episode # 1 THEN "noop" ELSE "update"
       ELSE "none"

\* what the loop decided: an early return, an update prepared, or neither
Decided ==
    IF scanned.out.ret # NoResult THEN "noop"
    ELSE IF scanned.out.update # NoUpdate THEN "update"
    ELSE "none"

\* C33 as stated (SpecScan): whatever the order of the lists in the snapshot, the loop
\* decides as the search by priority does: by the Watching entry when there is one, even
\* if the show is on Planning as well, and by the Planning entry only when Watching has
\* no matching entry.
C33_WatchingBeforePlanning ==
    scanned # NoScan => Decided = ByPriority

\* C34 as stated: an event handled on its own through scrobble of lib/scrobbler.ts leaves
\* the remote progress of every show at least what it was before the event, whatever list
\* the entry of the show is on.
C34_ProgressNeverDecreases ==
    LibForward => \A s \in Shows : lists[s].progress >= last.pre[s].progress

\* the episode numbers of the played season-1 episodes of the last series
PlayedSeasonOne ==
    {backfill.watched[i].IndexNumber : i \in
        {j \in 1..Len(backfill.watched) :
            /\ backfill.watched[j].ParentIndexNumber = 1
            /\ backfill.watched[j].IndexNumber \in EpisodeNumbers}}

\* the provider id of the last series is a valid AniList id
ValidProvider == backfill.provider \in {"1", "2"}

\* C35 (SpecBackfill): for a series of the library runBackfill makes at most one scrobble;
\* it makes one exactly when the series has a valid AniList id and a played season-1
\* episode (and no Jellyfin call failed), with season 1, the id of the series and the
\* highest episode number among the played season-1 episodes; a series without a valid
\* id or without a played season-1 episode is not scrobbled, and the episodes of other
\* seasons do not count.
C35_BackfillScrobblesHighest ==
    (backfill.ran /\ backfill.at # "played")
        => /\ Len(backfill.scrobbles) <= 1
           /\ (~ValidProvider \/ PlayedSeasonOne = {}) => backfill.scrobbles = <<>>
           /\ (ValidProvider /\ PlayedSeasonOne # {} /\ ~backfill.failed)
                 => Len(backfill.scrobbles) = 1
           /\ backfill.scrobbles # <<>>
                 => /\ backfill.scrobbles[1].season = 1
                    /\ backfill.scrobbles[1].id = TheShow
                    /\ backfill.scrobbles[1].episode \in PlayedSeasonOne
                    /\ \A e \in PlayedSeasonOne : e <= backfill.scrobbles[1].episode

\* the series has episode 2 of season 2 and episode 1 of season 1 played: episode 1 of
\* season 1 is scrobbled and the progress of the show is 1
C35_Witness ==
    /\ backfill.ran
    /\ backfill.watched = <<[ParentIndexNumber |-> 2, IndexNumber |-> 2],
                            [ParentIndexNumber |-> 1, IndexNumber |-> 1]>>
    /\ backfill.scrobbles = <<[id |-> TheShow, episode |-> 1, season |-> 1]>>
    /\ lists[TheShow] = [status |-> "CURRENT", progress |-> 1]

\* C36 (SpecResult): once a write has returned an entry, scrobble reports success exactly
\* when the entry has status COMPLETED, or status CURRENT, or progress equal to the episode
\* of the event; a success is of level info, and every other entry gives a non-success
\* result of level error (unexpected result).
C36_ResultFromReturnedEntry ==
    judged # NoJudged
        => /\ judged.result.success
                <=> (\/ judged.entry.status = "COMPLETED"
                     \/ judged.entry.status = "CURRENT"
                     \/ judged.entry.progress = judged.episode)
           /\ judged.result.success => judged.result.level = "info"
           /\ ~judged.result.success
                => judged.result.level = "error" /\ judged.result.reason = "unexpected"

\* the write returned a paused entry whose progress is the episode: a success
C36_Witness ==
    /\ judged.op = "update"
    /\ judged.entry = [status |-> "PAUSED", progress |-> 1]
    /\ judged.episode = 1
    /\ judged.result.success

\* C37: every ScrobbleResult returned by scrobble or handleUnwatchedEpisode has a level
\* among error, warn and info; a success has level info, and a result of level error or
\* warn is not a success.
C37_ResultWellFormed ==
    HasResult
        => /\ last.out.result.level \in {"error", "warn", "info"}
           /\ last.out.result.success => last.out.result.level = "info"
           /\ last.out.result.level \in {"error", "warn"} => ~last.out.result.success

\* handleUnwatchedEpisode reset the progress of the show and returned a success of level
\* info
C37_Witness ==
    /\ last.ev.handler = "webhookUserDataSaved_multi"
    /\ last.out.path = "correction"
    /\ last.out.result.success /\ last.out.result.level = "info"
    /\ lists[TheShow].progress = 0 /\ last.pre[TheShow].progress > 0

\* C38 (SpecLive): every upstream call eventually answering, a request that was accepted
\* is eventually answered, and it is answered once: the request ends only from its
\* Response and its Response is followed by nothing but the end; the retry loop of the
\* write makes at most maxAttempts attempts; a play-state detection that started
\* eventually ends, after at most maxRetries direct queries, one user lookup and one
\* series-level fallback query.
C38_Termination ==
    /\ (served[1].at \notin {"idle", "done"}) ~> (served[1].at = "done")
    /\ (detect.at \notin {"idle", "done"}) ~> (detect.at = "done")
    /\ [](/\ served[1].attempt <= maxAttempts
          /\ detect.asked.direct <= maxRetries
          /\ detect.asked.users <= 1
          /\ detect.asked.series <= 1)
    /\ [][/\ (served[1].at # "idle" /\ served'[1].at = "idle") => served[1].at = "done"
          /\ (served[1].at = "done" /\ served'[1] # served[1]) => served'[1].at = "idle"]_vars

\* the write failed three times with HTTP 500 and the request was answered 500; the
\* detection asked three times, fell back to the series-level query and ended
C38_Witness ==
    /\ served[1].at = "done" /\ served[1].status = 500 /\ served[1].update # NoUpdate
    /\ lists[TheShow].progress = 0
    /\ detect.at = "done"
    /\ detect.asked.direct = maxRetries /\ detect.asked.series = 1

====
